---- MODULE Spec2Model ----
(***************************************************************************)
(* Model of poker-server/server.ts: the score-submission gateway of Monad  *)
(* Poker.  The HTTP handlers run on one event loop; every action below is  *)
(* one run of a handler (or of a continuation of it) between two await     *)
(* points.  External collaborators (the ledger, HTTP clients) are inputs   *)
(* drawn from small sets.                                                  *)
(***************************************************************************)
EXTENDS Integers, Sequences, FiniteSets, TLC

(***************************************************************************)
(* Bounds of the model.                                                    *)
(***************************************************************************)
MaxJobs == 2        \* submissions accepted in Spec
MaxQueueJobs == 3   \* submissions accepted in SpecQueue
MaxAuthJobs == 1    \* submissions accepted in SpecAuth
MaxProxyJobs == 1   \* submissions accepted in SpecProxy
MaxForwards == 1    \* proxied requests on their way to a service endpoint

(***************************************************************************)
(* Configuration (server.ts:20-44, 197-198, 372): the values of the        *)
(* environment the modelled deployment runs with.                          *)
(***************************************************************************)
API_SECRET == "server-secret"
CLIENT_API_SECRET == "client-public-key"
HMAC_SECRET == "hmac-secret"
ALLOWED_ORIGINS == {"https://poker.app"}
ENABLE_UPDATE_ENDPOINT == TRUE
ENABLE_BATCH_ENDPOINT == TRUE
WalletConfigured == TRUE
GAME_CONTRACT_ADDRESS == "0xGAME"
LEADERBOARD_ADDRESS == "0xLEAD"
RATE_MAX == 4
RATE_WINDOW_MS == 2000
MAX_SKEW_SECONDS == 60
RECENT_HANDS_SIZE == 2
LEADERBOARD_CACHE_TTL_MS == 500
LEADERBOARD_FROM_BLOCK == 2
LEADERBOARD_INDEX_CHUNK_BLOCKS == 2
LEADERBOARD_READ_CONCURRENCY == 2

\* Date.now() at process start, in milliseconds.
StartMs == 100 * 1000

\* Well-formed addresses (viem isAddress).
Addresses == {"0xA", "0xB", "0xa", GAME_CONTRACT_ADDRESS, LEADERBOARD_ADDRESS}
isAddress(a) == a \in Addresses

Loopback == "127.0.0.1"
ClientIp == "10.0.0.7"

(***************************************************************************)
(* Small helpers.                                                          *)
(***************************************************************************)
Range(s) == {s[i] : i \in 1..Len(s)}

RECURSIVE Pow10(_)
Pow10(n) == IF n <= 0 THEN 1 ELSE 10 * Pow10(n - 1)

Abs(x) == IF x < 0 THEN -x ELSE x

DigitChars == <<"0", "1", "2", "3", "4", "5", "6", "7", "8", "9">>
IsDigit(c) == c \in Range(DigitChars)
DigitVal(c) == (CHOOSE i \in 1..10 : DigitChars[i] = c) - 1
AllDigits(s) == \A i \in 1..Len(s) : IsDigit(s[i])

RECURSIVE DigitsToInt(_)
DigitsToInt(s) ==
  IF Len(s) = 0 THEN 0
  ELSE 10 * DigitsToInt(SubSeq(s, 1, Len(s) - 1)) + DigitVal(s[Len(s)])

\* Number.prototype.toString of a non-negative integer: its decimal digits.
RECURSIVE DigitsOf(_)
DigitsOf(n) ==
  IF n < 10 THEN <<DigitChars[n + 1]>>
  ELSE DigitsOf(n \div 10) \o <<DigitChars[(n % 10) + 1]>>

\* k decimal digits of n, zero-padded on the left.
RECURSIVE PadDigits(_, _)
PadDigits(n, k) ==
  IF k = 0 THEN <<>>
  ELSE PadDigits(n \div 10, k - 1) \o <<DigitChars[(n % 10) + 1]>>

\* Index of the first occurrence of character c in s, 0 when absent.
FirstIndex(s, c) ==
  IF \E i \in 1..Len(s) : s[i] = c
  THEN CHOOSE i \in 1..Len(s) : s[i] = c /\ \A j \in 1..(i - 1) : s[j] # c
  ELSE 0

(***************************************************************************)
(* JavaScript Number(string) on unsigned decimal literals                  *)
(*   digits [. digits] [e digits]   |   . digits [e digits]                *)
(* A number is kept as m * 10^e in lowest terms (m not divisible by 10);   *)
(* every other string is NaN.  verifyHmac: `const ts = Number(tsStr)`.     *)
(***************************************************************************)
NaN == [nan |-> TRUE, m |-> 0, e |-> 0]

RECURSIVE Normal(_, _)
Normal(m, e) ==
  IF m = 0 THEN [nan |-> FALSE, m |-> 0, e |-> 0]
  ELSE IF m % 10 = 0 THEN Normal(m \div 10, e + 1)
  ELSE [nan |-> FALSE, m |-> m, e |-> e]

ToNumber(s) ==
  LET ePos == FirstIndex(s, "e")
      mant == IF ePos = 0 THEN s ELSE SubSeq(s, 1, ePos - 1)
      expo == IF ePos = 0 THEN <<>> ELSE SubSeq(s, ePos + 1, Len(s))
      dPos == FirstIndex(mant, ".")
      ip   == IF dPos = 0 THEN mant ELSE SubSeq(mant, 1, dPos - 1)
      fp   == IF dPos = 0 THEN <<>> ELSE SubSeq(mant, dPos + 1, Len(mant))
      expOk  == IF ePos = 0 THEN TRUE ELSE Len(expo) > 0 /\ AllDigits(expo)
      mantOk == /\ AllDigits(ip) /\ AllDigits(fp)
                /\ IF dPos = 0 THEN Len(ip) > 0 ELSE Len(ip) + Len(fp) > 0
  IN IF Len(s) = 0 THEN Normal(0, 0)
     ELSE IF ~(expOk /\ mantOk) THEN NaN
     ELSE Normal(DigitsToInt(ip \o fp), DigitsToInt(expo) - Len(fp))

\* Number.isFinite: NaN is not; values beyond the double range are Infinity.
IsFinite(v) == ~v.nan /\ v.e <= 300

\* Math.abs(nowSec - ts) > skew, on the exact value of ts.
SkewExceeded(nowSec, v, skew) ==
  IF v.e >= 0 THEN Abs(nowSec - v.m * Pow10(v.e)) > skew
  ELSE Abs(nowSec * Pow10(-v.e) - v.m) > skew * Pow10(-v.e)

\* The template literal `${ts}`: the decimal rendering of the number.
NumberToString(v) ==
  IF v.e >= 0 THEN DigitsOf(v.m * Pow10(v.e))
  ELSE DigitsOf(v.m \div Pow10(-v.e)) \o <<".">> \o PadDigits(v.m % Pow10(-v.e), -v.e)

(***************************************************************************)
(* Hashes.  sha256 and HMAC-sha256 are collision-free on the model's       *)
(* inputs: a digest is the tagged tuple of what was hashed.                *)
(***************************************************************************)
sha256Hex(raw) == <<"sha256", raw>>
HmacSha256(secret, payload) == <<"hmac", secret, payload>>
SignedPayload(tsText, nonce, bodyHashHex) == <<"v1", tsText, nonce, bodyHashHex>>

\* A signature header: "" when absent, else the hex text: an optional 0x
\* prefix, and the bytes it decodes to (their length class and value).
NoSig == [present |-> FALSE, pre |-> FALSE, len |-> "none", val |-> <<>>]
HexSig(pre, len, val) == [present |-> TRUE, pre |-> pre, len |-> len, val |-> val]

\* buildHmacHeaders(body) at time nowMs (server.ts:119-132).
buildHmacHeaders(raw, nowMs, nonce) ==
  LET ts == DigitsOf(nowMs \div 1000)
      payload == SignedPayload(ts, nonce, sha256Hex(raw))
  IN [ts |-> ts, nonce |-> nonce,
      sig |-> HexSig(TRUE, "full", HmacSha256(HMAC_SECRET, payload))]

(***************************************************************************)
(* Requests.  A request to a service endpoint carries the headers the      *)
(* handler reads and the JSON body; express.json keeps the raw bytes of    *)
(* the body (rawBody) when there is one, and the raw bytes determine the   *)
(* parsed body.                                                            *)
(***************************************************************************)
Amount(kind, n) == [kind |-> kind, n |-> n]   \* kind: "num" | "missing" | "bad"

BatchBody(requestId, players, winners, roomId, handSeq) ==
  [requestId |-> requestId, players |-> players, winners |-> winners,
   roomId |-> roomId, handSeq |-> handSeq,
   player |-> "", score |-> Amount("missing", 0), txs |-> Amount("missing", 0)]

UpdateBody(requestId, player, score, txs) ==
  [requestId |-> requestId, players |-> <<>>, winners |-> <<>>,
   roomId |-> "", handSeq |-> "",
   player |-> player, score |-> score, txs |-> txs]

\* The headers and the body of a request to a service endpoint.
ServiceReq(origin, xApiKey, ts, nonce, sig, hasRaw, body, ip, ridHdr) ==
  [origin |-> origin, xApiKey |-> xApiKey, bearer |-> "", ts |-> ts, nonce |-> nonce,
   sig |-> sig, hasRaw |-> hasRaw, body |-> body, ip |-> ip, ridHdr |-> ridHdr]

NoReq == ServiceReq("", "", <<>>, "", NoSig, FALSE, UpdateBody("", "", Amount("missing", 0),
                    Amount("missing", 0)), "", "")

\* apiKey = headerKey || bearerKey
PresentedKey(req) == IF req.xApiKey # "" THEN req.xApiKey ELSE req.bearer

\* (req.get('x-request-id') || req.body?.requestId || '').toString()
\* the requestId of the body first
IncomingRid_bodyFirst(req) == IF req.body.requestId # "" THEN req.body.requestId ELSE req.ridHdr

IncomingRid(req) == IF req.ridHdr # "" THEN req.ridHdr ELSE req.body.requestId

\* req.ip || 'global'
\* one window for every caller
RateKey_oneWindow(req) == "global"

RateKey(req) == IF req.ip # "" THEN req.ip ELSE "global"

(***************************************************************************)
(* validateOrigin, validateApiKey, validateServerApiKey (server.ts:351-369)*)
(***************************************************************************)
validateOrigin(origin) ==
  IF origin = "" THEN TRUE
  ELSE IF ALLOWED_ORIGINS = {} THEN FALSE
  ELSE origin \in ALLOWED_ORIGINS

\* The origin callback of the cors middleware (server.ts:178-187), which
\* every request passes before its handler: an error of the callback goes
\* to next(err), and Express answers 500 without calling the handler.
corsOrigin(origin) ==
  IF origin = "" THEN TRUE
  ELSE IF ALLOWED_ORIGINS = {} THEN FALSE
  ELSE origin \in ALLOWED_ORIGINS

validateApiKey(key) ==
  IF key = "" THEN FALSE
  ELSE IF {API_SECRET, CLIENT_API_SECRET} \ {""} = {} THEN FALSE
  ELSE key \in ({API_SECRET, CLIENT_API_SECRET} \ {""})

\* A service endpoint guarded by validateApiKey instead.
validateServerApiKey_lax(key) == validateApiKey(key)

validateServerApiKey(key) ==
  IF key = "" THEN FALSE
  ELSE IF API_SECRET = "" THEN FALSE
  ELSE key = API_SECRET

(***************************************************************************)
(* verifyHmac (server.ts:383-403).  The result is ok, a rejection with an  *)
(* error text, or an exception: crypto.timingSafeEqual throws a RangeError *)
(* when the two buffers differ in length.                                  *)
(***************************************************************************)
HmacOk == [kind |-> "ok", error |-> ""]
HmacReject(e) == [kind |-> "reject", error |-> e]
HmacThrow(e) == [kind |-> "throw", error |-> e]

verifyHmac(req, nowMs) ==
  LET tsStr == req.ts
      ts == ToNumber(tsStr)
      nowSec == nowMs \div 1000
      bodyHashHex == sha256Hex(req.body)
      payload == SignedPayload(NumberToString(ts), req.nonce, bodyHashHex)
      expected == HmacSha256(HMAC_SECRET, payload)
  IN IF HMAC_SECRET = "" THEN HmacReject("HMAC secret not configured")
     ELSE IF Len(tsStr) = 0 \/ req.nonce = "" \/ ~req.sig.present
       THEN HmacReject("Missing HMAC headers")
     ELSE IF ~IsFinite(ts) THEN HmacReject("Invalid timestamp")
     ELSE IF SkewExceeded(nowSec, ts, MAX_SKEW_SECONDS) THEN HmacReject("Stale timestamp")
     ELSE IF ~req.hasRaw THEN HmacReject("Missing raw body")
     ELSE IF req.sig.len # "full"
       THEN HmacThrow("Input buffers must have the same byte length")
     ELSE IF expected # req.sig.val THEN HmacReject("Bad signature")
     ELSE HmacOk

NoCase == [sent |-> NoReq, received |-> NoReq,
           sentVerdict |-> HmacReject(""), verdict |-> HmacReject("")]

(***************************************************************************)
(* RateLimiter.isAllowed (server.ts:199-215).                              *)
(***************************************************************************)
RateKeys == {ClientIp, Loopback, "global"}
NoRateEntry == [set |-> FALSE, count |-> 0, resetAt |-> 0]

CeilDiv(a, b) == IF a % b = 0 THEN a \div b ELSE (a \div b) + 1

\* a refused request is counted too
isAllowed_countsRefused(store, key, nowMs) ==
  LET entry == store[key] IN
  IF ~entry.set \/ nowMs > entry.resetAt
  THEN [store |-> [store EXCEPT ![key] =
                     [set |-> TRUE, count |-> 1, resetAt |-> nowMs + RATE_WINDOW_MS]],
        allowed |-> TRUE, remaining |-> RATE_MAX - 1, retryAfter |-> 0]
  ELSE IF entry.count >= RATE_MAX
  THEN [store |-> [store EXCEPT ![key].count = entry.count + 1], allowed |-> FALSE,
        remaining |-> 0, retryAfter |-> CeilDiv(entry.resetAt - nowMs, 1000)]
  ELSE [store |-> [store EXCEPT ![key].count = entry.count + 1],
        allowed |-> TRUE, remaining |-> RATE_MAX - (entry.count + 1), retryAfter |-> 0]

isAllowed(store, key, nowMs) ==
  LET entry == store[key] IN
  IF ~entry.set \/ nowMs > entry.resetAt
  THEN [store |-> [store EXCEPT ![key] =
                     [set |-> TRUE, count |-> 1, resetAt |-> nowMs + RATE_WINDOW_MS]],
        allowed |-> TRUE, remaining |-> RATE_MAX - 1, retryAfter |-> 0]
  ELSE IF entry.count >= RATE_MAX
  THEN [store |-> store, allowed |-> FALSE, remaining |-> 0,
        retryAfter |-> CeilDiv(entry.resetAt - nowMs, 1000)]
  ELSE [store |-> [store EXCEPT ![key].count = entry.count + 1],
        allowed |-> TRUE, remaining |-> RATE_MAX - (entry.count + 1), retryAfter |-> 0]

\* The times at which isAllowed admitted a request, for each key: an
\* admitted call is the only one that changes the key's entry.
Admitted(log, old, new, nowMs) ==
  [k \in RateKeys |-> IF new[k] # old[k] THEN Append(log[k], nowMs) ELSE log[k]]

(***************************************************************************)
(* Response bodies and idempotency records (server.ts:315-317).            *)
(***************************************************************************)
\* { ok: false, error: msg }
ErrBody(msg) == [shape |-> "fail", msg |-> msg, code |-> 0, tx |-> 0, rstatus |-> ""]
\* { ok: true, txHash, receipt: { status } }
Payload(tx, rstatus) == [shape |-> "ok", msg |-> "", code |-> 0, tx |-> tx, rstatus |-> rstatus]
\* the page of Express's default error handler
ErrorPage(msg) == [shape |-> "page", msg |-> msg, code |-> 0, tx |-> 0, rstatus |-> ""]
\* { code, message }: the error object kept in a done record
ErrObj(code, msg) == [shape |-> "errobj", msg |-> msg, code |-> code, tx |-> 0, rstatus |-> ""]
\* { ok: true }
OkBody == [shape |-> "oktrue", msg |-> "", code |-> 0, tx |-> 0, rstatus |-> ""]
\* res.json(undefined): an empty body
Undefined == [shape |-> "undefined", msg |-> "", code |-> 0, tx |-> 0, rstatus |-> ""]

Truthy(v) == v.shape # "undefined"

NoRecord == [status |-> "none", result |-> Undefined, error |-> Undefined]
ProcessingRecord == [status |-> "processing", result |-> Undefined, error |-> Undefined]
DoneResult(payload) == [status |-> "done", result |-> payload, error |-> Undefined]
\* the catch handler leaves the record as it is
DoneError_keepsProcessing(code, msg) == ProcessingRecord

DoneError(code, msg) == [status |-> "done", result |-> Undefined, error |-> ErrObj(code, msg)]

\* dedupCache.set(rid, rec) guarded by `if (rid)`
\* no record is stored
DedupSet_never(dc, rid, rec) == dc

\* a request without an id is recorded under a fixed one
DedupSet_defaultKey(dc, rid, rec) == [dc EXCEPT ![IF rid # "" THEN rid ELSE "r1"] = rec]

DedupSet(dc, rid, rec) == IF rid # "" THEN [dc EXCEPT ![rid] = rec] ELSE dc

(***************************************************************************)
(* The catch handlers (server.ts:699-710, 798-809): the status class is    *)
(* read off the lower-cased message.                                       *)
(***************************************************************************)
MsgWalletNotConfigured == "Backend wallet not configured"
MsgInvalidGame == "Invalid game contract address"
MsgInvalidLeaderboard == "Invalid leaderboard address"
MsgMissingPlayers == "Missing players"
MsgMismatch == "players/winners length mismatch"
MsgInvalidPlayer == "Invalid player address"
MsgInvalidPlayerAt(i) ==
  IF i = 1 THEN "Invalid player address at index 0"
  ELSE IF i = 2 THEN "Invalid player address at index 1"
  ELSE "Invalid player address at index 2"
MsgMissingField(f) == IF f = "scoreAmount" THEN "Missing required field: scoreAmount"
                      ELSE "Missing required field: transactionAmount"
MsgInvalidField(f) == IF f = "scoreAmount" THEN "Invalid scoreAmount"
                      ELSE "Invalid transactionAmount"
MsgBufferLength == "Input buffers must have the same byte length"
MsgInsufficientFunds == "insufficient funds for gas * price + value"
MsgAccessControl == "AccessControl: account is missing role"
MsgReverted == "execution reverted"

\* The keywords of the catch handlers that the lower-cased message includes.
Keywords(msg) ==
  IF msg = MsgInsufficientFunds THEN {"insufficient", "fund"}
  ELSE IF msg = MsgAccessControl THEN {"accesscontrol", "missing"}
  ELSE IF msg \in {MsgInvalidGame, MsgInvalidLeaderboard, MsgInvalidPlayer,
                   MsgInvalidPlayerAt(1), MsgInvalidPlayerAt(2), MsgInvalidPlayerAt(3),
                   MsgInvalidField("scoreAmount"), MsgInvalidField("transactionAmount")}
    THEN {"invalid"}
  ELSE IF msg \in {MsgMissingPlayers, MsgMissingField("scoreAmount"),
                   MsgMissingField("transactionAmount")}
    THEN {"missing"}
  ELSE IF msg = MsgMismatch THEN {"mismatch"}
  ELSE {}

ErrorCode(ep, msg) ==
  LET l == Keywords(msg) IN
  IF "insufficient" \in l /\ "fund" \in l THEN 402
  ELSE IF "unauthorized" \in l \/ "accesscontrol" \in l THEN 403
  ELSE IF "invalid" \in l \/ "missing" \in l \/ (ep = "batch" /\ "mismatch" \in l) THEN 400
  ELSE 500

\* catch (err): record the error under the request id, answer with the code.
CatchHandler(ep, req, msg, dc) ==
  LET code == ErrorCode(ep, msg)
      rid == IncomingRid(req)
  IN [status |-> code, body |-> ErrBody(msg),
      dedup |-> DedupSet(dc, rid, DoneError(code, msg))]


(***************************************************************************)
(* The state of the process.                                               *)
(***************************************************************************)
VARIABLES
  now,          \* Date.now(), milliseconds
  rateStore,    \* RateLimiter.store: key -> { count, resetAt }
  rateLog,      \* history: key -> the times of the calls isAllowed admitted
  dedupCache,   \* dedupCache: request id -> { status, result, error }
  q,            \* AsyncQueue.q: the queued jobs, oldest first
  running,      \* AsyncQueue.running
  jobs,         \* one record per txQueue.enqueue call, in call order
  started,      \* the jobs whose ledger write was issued, in issue order
  knownPlayers, \* knownPlayers
  localTotals,  \* localTotals: address -> { score, transactions }
  recentHands,  \* recentHands
  saves,        \* saveSnapshot calls in progress: how many await mkdir, and the
                \* payloads whose writeFile is pending
  disk,         \* the snapshot file
  forwards,     \* requests a proxy endpoint has sent to a service endpoint
  last,         \* the response sent last, with the request it answers
  hmacCase,     \* SpecHmac: a request as its sender signed it, the request as
                \* it arrived, and what verifyHmac said of each
  lastGet,      \* the response a read-only endpoint sent last, with its request
  ledger,       \* the leaderboard contract: player -> this game's score and count
  leaderboardCache,        \* leaderboardCache
  globalLeaderboardCache,  \* globalLeaderboardCache
  reads,        \* leaderboard handlers waiting for their ledger reads
  snapshotLoading,  \* snapshotLoadPromise is pending
  spent,        \* how many GET requests, restarts and ledger changes there were
  lastProcessedBlock,  \* lastProcessedBlock
  indexing,     \* indexing
  chainHead,    \* the number of the newest block of the chain
  scanned,      \* history: the blocks whose logs a getLogs call has returned
  indexRun      \* the run of runIndexerOnce in progress: where it waits

queueVars == <<q, running, jobs, started>>
cacheVars == <<knownPlayers, localTotals, recentHands>>
diskVars == <<saves, disk>>
boardVars == <<ledger, leaderboardCache, globalLeaderboardCache, reads, snapshotLoading, spent>>
indexVars == <<lastProcessedBlock, indexing, chainHead, scanned, indexRun>>
auxVars == <<lastGet, boardVars, indexVars>>
vars == <<auxVars, now, rateStore, rateLog, dedupCache, q, running, jobs, started,
          knownPlayers, localTotals, recentHands, saves, disk, forwards, last, hmacCase>>

Endpoints == {"batch", "update"}
Rids == {"r1", "r2", "r3", "r4"}
\* "0xA" is the checksummed and "0xa" the all-lowercase form of one address.
PlayerAddrs == {"0xA", "0xB", "0xa"}
\* the account a form of an address names, as the contract sees it
accountOf(a) == IF a = "0xa" THEN "0xA" ELSE a
Accounts == {accountOf(a) : a \in PlayerAddrs}

NoTotals == [set |-> FALSE, score |-> 0, transactions |-> 0]
LedgerStart == [a \in Accounts |->
                  IF a = "0xA" THEN [score |-> 1, transactions |-> 1]
                  ELSE [score |-> 1, transactions |-> 2]]
LedgerValues == {[score |-> 2, transactions |-> 2]}
NoItems == [set |-> FALSE, items |-> <<>>, updatedAt |-> 0]
NoFile == [exists |-> FALSE, knownPlayers |-> {}, localTotals |-> [a \in PlayerAddrs |-> NoTotals],
           recentHands |-> <<>>, lastProcessedBlock |-> 0, lastItems |-> NoItems]
NoSaves == [mkdir |-> 0, items |-> {}, writes |-> {}]
NoPayload == [scope |-> "none", totalPlayers |-> 0, count |-> 0, items |-> <<>>, updatedAt |-> 0]
NoCache == [set |-> FALSE, ts |-> 0, payload |-> NoPayload]
NoRun == [pc |-> "idle", from |-> 0, to |-> 0, head |-> 0]
NoGet == [ep |-> "none", limit |-> <<>>, force |-> FALSE, status |-> 0, retryAfter |-> -1,
          cached |-> FALSE, items |-> <<>>, updatedAt |-> 0, at |-> 0, ledger |-> LedgerStart]
NoResponse == [via |-> "none", ep |-> "none", apiKey |-> "", origin |-> "", rid |-> "",
               status |-> 0, body |-> Undefined, stage |-> "none", job |-> 0]

Init ==
  /\ now = StartMs
  /\ rateStore = [k \in RateKeys |-> NoRateEntry]
  /\ rateLog = [k \in RateKeys |-> <<>>]
  /\ dedupCache = [k \in Rids |-> NoRecord]
  /\ q = <<>>
  /\ running = FALSE
  /\ jobs = <<>>
  /\ started = <<>>
  /\ knownPlayers = {}
  /\ localTotals = [a \in PlayerAddrs |-> NoTotals]
  /\ recentHands = <<>>
  /\ saves = NoSaves
  /\ disk = NoFile
  /\ forwards = {}
  /\ last = NoResponse
  /\ hmacCase = NoCase
  /\ lastGet = NoGet
  /\ ledger = LedgerStart
  /\ leaderboardCache = NoCache
  /\ globalLeaderboardCache = NoCache
  /\ reads = <<>>
  /\ snapshotLoading = TRUE
  /\ spent = [gets |-> 0, restarts |-> 0, ledger |-> 0]
  /\ lastProcessedBlock = LEADERBOARD_FROM_BLOCK
  /\ indexing = FALSE
  /\ chainHead = LEADERBOARD_FROM_BLOCK
  /\ scanned = {}
  /\ indexRun = NoRun

(***************************************************************************)
(* Body validation of the two service endpoints (server.ts:580-597,        *)
(* 757-772): the message of the first error thrown, "" when there is none. *)
(***************************************************************************)
FirstBadPlayer(players) ==
  IF \E i \in 1..Len(players) : ~isAddress(players[i])
  THEN CHOOSE i \in 1..Len(players) :
         ~isAddress(players[i]) /\ \A j \in 1..(i - 1) : isAddress(players[j])
  ELSE 0

\* parseAmount (server.ts:405-414)
parseAmount(value, field) ==
  IF value.kind = "missing" THEN MsgMissingField(field)
  ELSE IF value.kind = "bad" \/ value.n < 0 THEN MsgInvalidField(field)
  ELSE ""

ValidateBatch(body) ==
  IF ~WalletConfigured THEN MsgWalletNotConfigured
  ELSE IF GAME_CONTRACT_ADDRESS = "" \/ ~isAddress(GAME_CONTRACT_ADDRESS) THEN MsgInvalidGame
  ELSE IF Len(body.players) = 0 THEN MsgMissingPlayers
  ELSE IF Len(body.players) # Len(body.winners) THEN MsgMismatch
  ELSE IF FirstBadPlayer(body.players) # 0
    THEN MsgInvalidPlayerAt(FirstBadPlayer(body.players))
  ELSE ""

ValidateUpdate(body) ==
  IF ~WalletConfigured THEN MsgWalletNotConfigured
  ELSE IF ~isAddress(LEADERBOARD_ADDRESS) THEN MsgInvalidLeaderboard
  ELSE IF ~isAddress(body.player) THEN MsgInvalidPlayer
  ELSE IF parseAmount(body.score, "scoreAmount") # ""
    THEN parseAmount(body.score, "scoreAmount")
  ELSE parseAmount(body.txs, "transactionAmount")

Validate(ep, body) == IF ep = "batch" THEN ValidateBatch(body) ELSE ValidateUpdate(body)

HmacMessage(e) ==
  IF e = "HMAC secret not configured" THEN "HMAC: HMAC secret not configured"
  ELSE IF e = "Missing HMAC headers" THEN "HMAC: Missing HMAC headers"
  ELSE IF e = "Invalid timestamp" THEN "HMAC: Invalid timestamp"
  ELSE IF e = "Stale timestamp" THEN "HMAC: Stale timestamp"
  ELSE IF e = "Missing raw body" THEN "HMAC: Missing raw body"
  ELSE "HMAC: Bad signature"

\* The answer to a request whose id has a done record (server.ts:574, 751).
ReplayBody(ep, existing) ==
  IF ep = "batch"
  THEN IF Truthy(existing.result) THEN existing.result
       ELSE IF Truthy(existing.error) THEN existing.error
       ELSE OkBody
  ELSE existing.result

(***************************************************************************)
(* The synchronous part of POST /api/submit-hand-batch and of              *)
(* POST /api/update-player-data (server.ts:537-607, 714-775): from the     *)
(* first line to the response, or to the call of txQueue.enqueue.          *)
(***************************************************************************)
Outcome(status, body, store, dc, enq, stage) ==
  [status |-> status, body |-> body, store |-> store, dedup |-> dc,
   enq |-> enq, stage |-> stage]

ServiceHandler(ep, req, nowMs, store, dc) ==
  LET enabled == IF ep = "batch" THEN ENABLE_BATCH_ENDPOINT ELSE ENABLE_UPDATE_ENDPOINT
      h == verifyHmac(req, nowMs)
      rl == isAllowed(store, RateKey(req), nowMs)
      rid == IncomingRid(req)
      reserved == DedupSet(dc, rid, ProcessingRecord)
      invalid == Validate(ep, req.body)
  IN IF ~corsOrigin(req.origin)
       THEN Outcome(500, ErrorPage("Not allowed by CORS"), store, dc, FALSE, "cors")
     ELSE IF ~enabled
       THEN Outcome(404, ErrBody("Endpoint disabled"), store, dc, FALSE, "disabled")
     ELSE IF ~validateOrigin(req.origin)
       THEN Outcome(403, ErrBody("Invalid origin"), store, dc, FALSE, "origin")
     ELSE IF ~validateServerApiKey(PresentedKey(req))
       THEN Outcome(401, ErrBody("Unauthorized"), store, dc, FALSE, "apikey")
     ELSE IF h.kind = "throw"
       THEN LET c == CatchHandler(ep, req, h.error, dc)
            IN Outcome(c.status, c.body, store, c.dedup, FALSE, "hmac")
     ELSE IF h.kind = "reject"
       THEN Outcome(401, ErrBody(HmacMessage(h.error)), store, dc, FALSE, "hmac")
     ELSE IF ~rl.allowed
       THEN Outcome(429, ErrBody("Too many requests"), rl.store, dc, FALSE, "rate")
     ELSE IF rid # "" /\ dc[rid].status = "done"
       THEN Outcome(200, ReplayBody(ep, dc[rid]), rl.store, dc, FALSE, "replay")
     ELSE IF rid # "" /\ dc[rid].status = "processing"
       THEN Outcome(409, ErrBody("Duplicate request in progress"), rl.store, dc, FALSE,
                    "conflict")
     ELSE IF invalid # ""
       THEN LET c == CatchHandler(ep, req, invalid, reserved)
            IN Outcome(c.status, c.body, rl.store, c.dedup, FALSE, "invalid")
     ELSE Outcome(0, Undefined, rl.store, reserved, TRUE, "enqueue")


(***************************************************************************)
(* AsyncQueue (server.ts:320-348).  A job is named by its index in `jobs`. *)
(* run() executes a job up to its first await in the same turn of the      *)
(* event loop; a runner is then suspended in `await job()` until the       *)
(* job's task settles.                                                     *)
(***************************************************************************)
QState(qq, isRunning, jb, st) == [q |-> qq, running |-> isRunning, jobs |-> jb, started |-> st]

\* The fields of the queue after a call of enqueue or a turn of run.
QueueBecomes(l) ==
  q' = l.q /\ running' = l.running /\ jobs' = l.jobs /\ started' = l.started

\* this.q.pop() in the place of this.q.shift()
ShiftLast(qq) == [job |-> qq[Len(qq)], rest |-> SubSeq(qq, 1, Len(qq) - 1)]

\* const job = this.q.shift()
Shift(qq) == [job |-> Head(qq), rest |-> Tail(qq)]

\* enqueue without the test of the running flag
StartsRunnerAlways(isRunning) == TRUE

\* if (!this.running) this.run()
StartsRunner(isRunning) == ~isRunning

\* the flag stays set when the loop ends
DrainEnds_keepsFlag(isRunning) == isRunning

\* finally { this.running = false }
DrainEnds(isRunning) == FALSE

\* One evaluation of `while (this.q.length)`: the next job starts (its task
\* calls walletClient.writeContract), or the loop ends and `finally` clears
\* the flag.
LoopStep(qq, isRunning, jb, st) ==
  IF Len(qq) > 0
  THEN LET s == Shift(qq)
       IN QState(s.rest, isRunning, [jb EXCEPT ![s.job].pc = "write"], Append(st, s.job))
  ELSE QState(qq, DrainEnds(isRunning), jb, st)

\* a failed job throws into run(), which leaves the loop through `finally`
AfterFailure_stops(qq, isRunning, jb, st) == QState(qq, FALSE, jb, st)

\* The wrapper of a job catches the task's error and rejects; `await job()`
\* returns as after a success and the loop goes on.
AfterFailure(qq, isRunning, jb, st) == LoopStep(qq, isRunning, jb, st)

\* The promise enqueue returned for a job: its state, the job whose task
\* outcome it carries, the outcome, and how often resolve or reject was
\* called for it.
NoPromise == [state |-> "pending", of |-> 0, value |-> "", calls |-> 0]

\* resolve or reject of the promise of the job at the head of `started`
settle_first(jb, st, j, state, value) ==
  [jb EXCEPT ![st[1]].promise =
     IF @.state = "pending"
     THEN [state |-> state, of |-> j, value |-> value, calls |-> @.calls + 1]
     ELSE [@ EXCEPT !.calls = @ + 1]]

\* resolve(out) or reject(e) in the wrapper of job j, after `await task()`;
\* a promise keeps its first settlement.
settle(jb, st, j, state, value) ==
  [jb EXCEPT ![j].promise =
     IF @.state = "pending"
     THEN [state |-> state, of |-> j, value |-> value, calls |-> @.calls + 1]
     ELSE [@ EXCEPT !.calls = @ + 1]]

\* private async run()
run(qq, jb, st) == LoopStep(qq, TRUE, jb, st)

\* enqueue(task)
enqueue(qq, isRunning, jb, st, job) ==
  LET jb1 == Append(jb, job)
      q1 == Append(qq, Len(jb1))
  IN IF StartsRunner(isRunning) THEN run(q1, jb1, st)
     ELSE QState(q1, isRunning, jb1, st)

NewJob(ep, req, via) ==
  [ep |-> ep, rid |-> IncomingRid(req), apiKey |-> PresentedKey(req),
   origin |-> req.origin, hmac |-> verifyHmac(req, now).kind, via |-> via,
   body |-> req.body, pc |-> "queued", rstatus |-> "",
   status |-> 0, answer |-> Undefined, promise |-> NoPromise]

Response(via, ep, apiKey, origin, rid, status, body, stage, job) ==
  [via |-> via, ep |-> ep, apiKey |-> apiKey, origin |-> origin, rid |-> rid,
   status |-> status, body |-> body, stage |-> stage, job |-> job]

(***************************************************************************)
(* A request reaches a service endpoint: directly, or sent by a proxy      *)
(* endpoint over the loopback interface.                                   *)
(***************************************************************************)
\* The handler has run up to its response or to txQueue.enqueue.
Handled(ep, req, via, maxJobs, o) ==
  /\ o.enq => Len(jobs) < maxJobs
  /\ rateStore' = o.store
  /\ rateLog' = Admitted(rateLog, rateStore, o.store, now)
  /\ dedupCache' = o.dedup
  /\ IF o.enq
     THEN /\ QueueBecomes(enqueue(q, running, jobs, started, NewJob(ep, req, via)))
          /\ UNCHANGED last
     ELSE /\ UNCHANGED queueVars
          /\ last' = Response(via, ep, PresentedKey(req), req.origin, IncomingRid(req),
                              o.status, o.body, o.stage, 0)
  /\ UNCHANGED <<auxVars, now, hmacCase, cacheVars, diskVars>>

ServiceRequest(ep, req, via, maxJobs) ==
  Handled(ep, req, via, maxJobs, ServiceHandler(ep, req, now, rateStore, dedupCache))

(***************************************************************************)
(* Local caches (server.ts:134-163) and saveSnapshot (server.ts:101-116).  *)
(***************************************************************************)
\* saveSnapshot(): the call returns at `await fs.mkdir`
saveSnapshot(sv) == [sv EXCEPT !.mkdir = @ + 1]

\* the registry is replaced by the addresses of the call
addKnownPlayers_replaces(known, sv, addrs) ==
  LET new == {a \in Range(addrs) : isAddress(a) /\ a \notin known}
  IN [known |-> {a \in Range(addrs) : isAddress(a)},
      saves |-> IF new # {} THEN saveSnapshot(sv) ELSE sv]

\* addKnownPlayers: the part before `await saveSnapshot()`
addKnownPlayers(known, sv, addrs) ==
  LET new == {a \in Range(addrs) : isAddress(a) /\ a \notin known}
  IN [known |-> known \cup new, saves |-> IF new # {} THEN saveSnapshot(sv) ELSE sv]

RECURSIVE bumpFrom(_, _, _, _)
bumpFrom(totals, players, winners, i) ==
  IF i > Len(players) THEN totals
  ELSE IF ~isAddress(players[i]) THEN bumpFrom(totals, players, winners, i + 1)
  ELSE LET existing == IF totals[players[i]].set THEN totals[players[i]] ELSE NoTotals
           next == [set |-> TRUE,
                    score |-> existing.score + (IF winners[i] THEN 1 ELSE 0),
                    transactions |-> existing.transactions + 1]
       IN bumpFrom([totals EXCEPT ![players[i]] = next], players, winners, i + 1)

bumpLocalTotals(totals, players, winners) == bumpFrom(totals, players, winners, 1)

\* slice(-RECENT_HANDS_SIZE)
LastN(s, n) == IF Len(s) > n THEN SubSeq(s, Len(s) - n + 1, Len(s)) ELSE s

appendRecentHand(hands, entry) == LastN(Append(hands, entry), RECENT_HANDS_SIZE)

\* Ids sent to the ledger: a bytes32 value of the body is kept, anything
\* else is replaced by the sha256 of a string built from roomId and handSeq.
Bytes32Values == {"0x1111111111111111111111111111111111111111111111111111111111111111"}
isBytes32(v) == v \in Bytes32Values
toBytes32FromString(parts) == [hashed |-> TRUE, text |-> "", parts |-> parts]
AsBytes32(v) == [hashed |-> FALSE, text |-> v, parts |-> <<>>]

LedgerRequestId(body) ==
  IF isBytes32(body.requestId) THEN AsBytes32(body.requestId)
  ELSE toBytes32FromString(<<"req", GAME_CONTRACT_ADDRESS, body.roomId, body.handSeq>>)

RecentEntry(body, nowMs) ==
  [requestId |-> LedgerRequestId(body), players |-> body.players,
   winners |-> body.winners, timestamp |-> nowMs \div 1000]

\* The payload saveSnapshot builds; lastItems only when the caller gave them.
SnapshotPayload ==
  [exists |-> TRUE, knownPlayers |-> knownPlayers, localTotals |-> localTotals,
   recentHands |-> recentHands, lastProcessedBlock |-> lastProcessedBlock,
   lastItems |-> NoItems]

(***************************************************************************)
(* The task of a job: writeContract, then waitForTransactionReceipt; and   *)
(* the continuation of the handler that awaits it.                         *)
(***************************************************************************)
Active(jb) == {j \in 1..Len(jb) : jb[j].pc \in {"write", "receipt"}}

\* writeContract resolves with a transaction hash
JobWriteSent(j) ==
  /\ j \in 1..Len(jobs) /\ jobs[j].pc = "write"
  /\ jobs' = [jobs EXCEPT ![j].pc = "receipt"]
  /\ UNCHANGED <<auxVars, now, hmacCase, rateStore, rateLog, dedupCache, q, running, started, cacheVars, diskVars,
                 forwards, last>>

\* What the ledger client can answer: the messages of a rejected write, and
\* the status of a receipt.
LedgerErrors == {MsgInsufficientFunds, MsgAccessControl, MsgReverted}
ReceiptStatuses == {"success", "reverted"}

\* writeContract or waitForTransactionReceipt rejects: the job rejects, the
\* handler's catch runs, the runner goes on with the queue.
\* the local caches are updated although the write failed
JobFails_updatesCaches(j, msg) ==
  /\ j \in 1..Len(jobs) /\ jobs[j].pc \in {"write", "receipt"}
  /\ LET job == jobs[j]
         code == ErrorCode(job.ep, msg)
         l == AfterFailure(q, running,
                           settle([jobs EXCEPT ![j].pc = "done", ![j].status = code,
                                                ![j].answer = ErrBody(msg)],
                                  started, j, "rejected", msg),
                           started)
     IN /\ dedupCache' = DedupSet(dedupCache, job.rid, DoneError(code, msg))
        /\ last' = Response(job.via, job.ep, job.apiKey, job.origin, job.rid,
                            code, ErrBody(msg), "job", j)
        /\ QueueBecomes(l)
        /\ IF job.ep = "batch"
           THEN /\ localTotals' = bumpLocalTotals(localTotals, job.body.players,
                                                  job.body.winners)
                /\ recentHands' = appendRecentHand(recentHands, RecentEntry(job.body, now))
                /\ UNCHANGED knownPlayers
           ELSE UNCHANGED cacheVars
  /\ UNCHANGED <<auxVars, now, hmacCase, rateStore, rateLog, diskVars, forwards>>

JobFails(j, msg) ==
  /\ j \in 1..Len(jobs) /\ jobs[j].pc \in {"write", "receipt"}
  /\ LET job == jobs[j]
         code == ErrorCode(job.ep, msg)
         l == AfterFailure(q, running,
                           settle([jobs EXCEPT ![j].pc = "done", ![j].status = code,
                                                ![j].answer = ErrBody(msg)],
                                  started, j, "rejected", msg),
                           started)
     IN /\ dedupCache' = DedupSet(dedupCache, job.rid, DoneError(code, msg))
        /\ last' = Response(job.via, job.ep, job.apiKey, job.origin, job.rid,
                            code, ErrBody(msg), "job", j)
        /\ QueueBecomes(l)
  /\ UNCHANGED <<auxVars, now, hmacCase, rateStore, rateLog, cacheVars, diskVars, forwards>>

\* The receipt arrives (status success or reverted): the job resolves.
\* update-player-data answers at once; submit-hand-batch updates the local
\* caches and goes on to read the players' statistics.
JobReceipt(j, rstatus) ==
  /\ j \in 1..Len(jobs) /\ jobs[j].pc = "receipt"
  /\ LET job == jobs[j]
         payload == Payload(j, rstatus)
         akp == addKnownPlayers(knownPlayers, saves, job.body.players)
         pcNext == IF job.ep = "batch" THEN "stats" ELSE "done"
         l == LoopStep(q, running,
                       settle([jobs EXCEPT ![j].pc = pcNext, ![j].rstatus = rstatus,
                                            ![j].status = IF job.ep = "batch" THEN 0 ELSE 200,
                                            ![j].answer = IF job.ep = "batch" THEN Undefined
                                                          ELSE payload],
                              started, j, "fulfilled", rstatus),
                       started)
     IN /\ QueueBecomes(l)
        /\ IF job.ep = "batch"
           THEN /\ knownPlayers' = akp.known
                /\ saves' = akp.saves
                /\ localTotals' = bumpLocalTotals(localTotals, job.body.players,
                                                  job.body.winners)
                /\ recentHands' = appendRecentHand(recentHands, RecentEntry(job.body, now))
                /\ UNCHANGED <<dedupCache, last>>
           ELSE /\ dedupCache' = DedupSet(dedupCache, job.rid, DoneResult(payload))
                /\ last' = Response(job.via, job.ep, job.apiKey, job.origin, job.rid,
                                    200, payload, "job", j)
                /\ UNCHANGED <<cacheVars, saves>>
  /\ UNCHANGED <<auxVars, now, hmacCase, rateStore, rateLog, disk, forwards>>

\* submit-hand-batch: the statistics reads have settled; the payload is
\* stored under the request id and sent.
StatsDone(j) ==
  /\ j \in 1..Len(jobs) /\ jobs[j].pc = "stats"
  /\ LET job == jobs[j]
         payload == Payload(j, job.rstatus)
     IN /\ dedupCache' = DedupSet(dedupCache, job.rid, DoneResult(payload))
        /\ last' = Response(job.via, job.ep, job.apiKey, job.origin, job.rid,
                            200, payload, "job", j)
        /\ jobs' = [jobs EXCEPT ![j].pc = "done", ![j].status = 200, ![j].answer = payload]
  /\ UNCHANGED <<auxVars, now, hmacCase, rateStore, rateLog, q, running, started, cacheVars, diskVars, forwards>>

\* saveSnapshot after `await fs.mkdir`: the payload is built from the state
\* of that moment and handed to fs.writeFile.
SaveMkdirDone ==
  /\ saves.mkdir > 0
  /\ saves' = [saves EXCEPT !.mkdir = @ - 1, !.writes = @ \cup {SnapshotPayload}]
  /\ UNCHANGED <<auxVars, now, hmacCase, rateStore, rateLog, dedupCache, queueVars, cacheVars, disk, forwards, last>>

SaveWriteDone(p) ==
  /\ p \in saves.writes
  /\ saves' = [saves EXCEPT !.writes = @ \ {p}]
  /\ disk' = p
  /\ UNCHANGED <<auxVars, now, hmacCase, rateStore, rateLog, dedupCache, queueVars, cacheVars, forwards, last>>

\* mkdir or writeFile fails: the error is swallowed
SaveFails ==
  /\ \/ /\ saves.mkdir > 0
        /\ saves' = [saves EXCEPT !.mkdir = @ - 1]
     \/ \E p \in saves.writes : saves' = [saves EXCEPT !.writes = @ \ {p}]
  /\ UNCHANGED <<auxVars, now, hmacCase, rateStore, rateLog, dedupCache, queueVars, cacheVars, disk, forwards, last>>


(***************************************************************************)
(* The browser-facing proxies POST /api/client/submit-hand-batch and       *)
(* POST /api/client/update-player-data (server.ts:417-534): the part up to *)
(* the fetch of the service endpoint.                                      *)
(***************************************************************************)
ProxyOutcome(status, body, store, forward, req) ==
  [status |-> status, body |-> body, store |-> store, forward |-> forward, req |-> req]

\* A proxy that forwards whatever key the request carries.
ClientKeyRejected_never(clientKey) == FALSE

\* if (CLIENT_API_SECRET) { ... if (clientKey !== CLIENT_API_SECRET) 401 }
ClientKeyRejected(clientKey) == CLIENT_API_SECRET # "" /\ clientKey # CLIENT_API_SECRET

ProxyHandler(ep, creq, nowMs, store, nonce) ==
  LET enabled == IF ep = "batch" THEN ENABLE_BATCH_ENDPOINT ELSE ENABLE_UPDATE_ENDPOINT
      clientKey == PresentedKey(creq)
      rl == isAllowed(store, RateKey(creq), nowMs)
      body == IF ep = "batch" THEN creq.body
              ELSE UpdateBody("", creq.body.player, creq.body.score, creq.body.txs)
      rid == IncomingRid(creq)
      hmacHeaders == buildHmacHeaders(body, nowMs, nonce)
      upstream == ServiceReq("", API_SECRET, hmacHeaders.ts, hmacHeaders.nonce,
                             hmacHeaders.sig, TRUE, body, Loopback, rid)
  IN IF ~corsOrigin(creq.origin)
       THEN ProxyOutcome(500, ErrorPage("Not allowed by CORS"), store, FALSE, NoReq)
     ELSE IF ~enabled
       THEN ProxyOutcome(404, ErrBody("Endpoint disabled"), store, FALSE, NoReq)
     ELSE IF ~validateOrigin(creq.origin)
       THEN ProxyOutcome(403, ErrBody("Invalid origin"), store, FALSE, NoReq)
     ELSE IF ClientKeyRejected(clientKey)
       THEN ProxyOutcome(401, ErrBody("Unauthorized"), store, FALSE, NoReq)
     ELSE IF ~rl.allowed
       THEN ProxyOutcome(429, ErrBody("Too many requests"), rl.store, FALSE, NoReq)
     ELSE IF ep = "update" /\ ~isAddress(body.player)
       THEN ProxyOutcome(400, ErrBody(MsgInvalidPlayer), rl.store, FALSE, NoReq)
     ELSE IF HMAC_SECRET = ""
       THEN ProxyOutcome(500, ErrBody("HMAC secret not configured"), rl.store, FALSE, NoReq)
     ELSE ProxyOutcome(0, Undefined, rl.store, TRUE, upstream)

ProxyRequest(ep, creq, nonce) ==
  LET o == ProxyHandler(ep, creq, now, rateStore, nonce)
  IN /\ o.forward => Cardinality(forwards) < MaxForwards
     /\ rateStore' = o.store
     /\ rateLog' = Admitted(rateLog, rateStore, o.store, now)
     /\ IF o.forward
        THEN /\ forwards' = forwards \cup
                  {[ep |-> ep, req |-> o.req, fromOrigin |-> creq.origin,
                    fromKey |-> PresentedKey(creq)]}
             /\ UNCHANGED last
        ELSE /\ UNCHANGED forwards
             /\ last' = Response("client", ep, PresentedKey(creq), creq.origin,
                                 IncomingRid(creq), o.status, o.body, "proxy", 0)
     /\ UNCHANGED <<auxVars, now, hmacCase, dedupCache, queueVars, cacheVars, diskVars>>

\* A request sent to a service endpoint from outside.
DirectRequest(ep, req, maxJobs) ==
  /\ ServiceRequest(ep, req, "direct", maxJobs)
  /\ UNCHANGED forwards

\* The request sent by a proxy arrives at the service endpoint; the proxy
\* passes the answer on as it is.
ForwardedRequest(f, maxJobs) ==
  /\ f \in forwards
  /\ ServiceRequest(f.ep, f.req, "proxy", maxJobs)
  /\ forwards' = forwards \ {f}

(***************************************************************************)
(* The operator endpoints GET /api/debug/leaderboard,                      *)
(* GET /api/debug/tx/:hash/leaderboard-events and                          *)
(* GET /api/leaderboard/status (server.ts:813-898, 1127-1151) read the     *)
(* ledger and the local state and change nothing.                          *)
(***************************************************************************)
OperatorEndpoints == {"debug-leaderboard", "debug-tx", "status"}

OperatorHandler(ep, key, hashOk) ==
  IF ~validateServerApiKey(key) THEN [status |-> 401, body |-> ErrBody("Unauthorized")]
  ELSE IF ep = "debug-tx" /\ ~hashOk THEN [status |-> 400, body |-> ErrBody("Invalid tx hash")]
  ELSE [status |-> 200, body |-> OkBody]

OperatorRequest(ep, key, hashOk) ==
  LET o == OperatorHandler(ep, key, hashOk)
  IN /\ last' = Response("operator", ep, key, "", "", o.status, o.body, "operator", 0)
     /\ UNCHANGED <<auxVars, now, hmacCase, rateStore, rateLog, dedupCache, queueVars, cacheVars, diskVars, forwards>>

(***************************************************************************)
(* The requests the environment sends.                                     *)
(***************************************************************************)
EvilOrigin == "https://evil.example"
AllowedOrigin == "https://poker.app"
Origins == {"", AllowedOrigin, EvilOrigin}
PresentedKeys == {API_SECRET, CLIENT_API_SECRET, ""}
WrongSecret == "guessed-secret"

\* The signature a client puts on (ts, nonce, body).
SigOf(kind, ts, nonce, body) ==
  LET payload == SignedPayload(ts, nonce, sha256Hex(body)) IN
  IF kind = "good" THEN HexSig(TRUE, "full", HmacSha256(HMAC_SECRET, payload))
  ELSE IF kind = "forged" THEN HexSig(TRUE, "full", HmacSha256(WrongSecret, payload))
  ELSE IF kind = "short" THEN HexSig(TRUE, "short", HmacSha256(HMAC_SECRET, payload))
  ELSE NoSig

TsOf(kind, nowMs) ==
  IF kind = "fresh" THEN DigitsOf(nowMs \div 1000)
  ELSE DigitsOf((nowMs \div 1000) - MAX_SKEW_SECONDS - 1)

\* (x-request-id header, requestId of the body)
RidPairs == {<<"", "">>, <<"r1", "">>, <<"", "r2">>}

GoodBatch(bodyRid) == BatchBody(bodyRid, <<"0xA", "0xB">>, <<TRUE, FALSE>>, "room1", "1")
BadBatch(bodyRid) == BatchBody(bodyRid, <<"0xA", "0xZZ">>, <<TRUE, TRUE>>, "room1", "3")
GoodUpdate(bodyRid) == UpdateBody(bodyRid, "0xA", Amount("num", 5), Amount("num", 1))
BadUpdate(bodyRid) == UpdateBody(bodyRid, "not-an-address", Amount("num", 5), Amount("num", 1))

GoodBody(ep, bodyRid) == IF ep = "batch" THEN GoodBatch(bodyRid) ELSE GoodUpdate(bodyRid)
BadBody(ep, bodyRid) == IF ep = "batch" THEN BadBatch(bodyRid) ELSE BadUpdate(bodyRid)

DirectReq(origin, key, tsKind, sigKind, rp, body) ==
  ServiceReq(origin, key, TsOf(tsKind, now), "n1",
             SigOf(sigKind, TsOf(tsKind, now), "n1", body), TRUE, body, ClientIp, rp[1])

\* Submissions that pass every check: the server key, a good signature, a
\* valid body; with and without a request id.
ValidRequests(ep) ==
  {DirectReq("", API_SECRET, "fresh", "good", rp, GoodBody(ep, rp[2])) : rp \in RidPairs}

\* Valid submissions that name their request id in the header.
KeyedRequests(ep) ==
  {DirectReq("", API_SECRET, "fresh", "good", <<rid, "">>, GoodBody(ep, "")) : rid \in Rids}

\* Authenticated submissions whose body fails validation.
InvalidBodyRequests(ep) ==
  {DirectReq("", API_SECRET, "fresh", "good", <<"r1", "">>, BadBody(ep, ""))}

\* Submissions with the server key whose signature has the wrong length.
ShortSigRequests(ep) ==
  {DirectReq("", API_SECRET, "fresh", "short", rp, GoodBody(ep, rp[2])) :
     rp \in {<<"", "">>, <<"r1", "">>, <<"", "r1">>}}

\* Submissions that fail one of the checks made before the rate limiter.
UnauthenticRequests(ep) ==
  {DirectReq(p[1], p[2], p[3], p[4], <<"r1", "">>, GoodBody(ep, "")) :
     p \in {<<"", CLIENT_API_SECRET, "fresh", "good">>,
            <<EvilOrigin, CLIENT_API_SECRET, "fresh", "good">>,
            <<"", CLIENT_API_SECRET, "fresh", "short">>,
            <<"", "", "fresh", "good">>,
            <<EvilOrigin, API_SECRET, "fresh", "good">>,
            <<"", API_SECRET, "stale", "good">>,
            <<"", API_SECRET, "fresh", "forged">>,
            <<"", API_SECRET, "fresh", "none">>}}

ClientReq(origin, key, body, ridHdr) ==
  [origin |-> origin, xApiKey |-> key, bearer |-> "", ip |-> ClientIp,
   ridHdr |-> ridHdr, body |-> body]

ClientRequests(ep) ==
  {ClientReq(p[1], p[2], GoodBody(ep, ""), "r1") :
     p \in {<<AllowedOrigin, CLIENT_API_SECRET>>, <<"", CLIENT_API_SECRET>>,
            <<EvilOrigin, CLIENT_API_SECRET>>, <<AllowedOrigin, API_SECRET>>,
            <<AllowedOrigin, "">>}}
  \cup {ClientReq(AllowedOrigin, CLIENT_API_SECRET, BadBody(ep, ""), "r1")}

(***************************************************************************)
(* The steps of the queued jobs, for the answers the ledger client can     *)
(* give.                                                                   *)
(***************************************************************************)
Internal(errors, statuses) ==
  \/ \E j \in 1..Len(jobs) : JobWriteSent(j)
  \/ \E j \in 1..Len(jobs) : \E msg \in errors : JobFails(j, msg)
  \/ \E j \in 1..Len(jobs) : \E rstatus \in statuses : JobReceipt(j, rstatus)
  \/ \E j \in 1..Len(jobs) : StatsDone(j)

(***************************************************************************)
(* The steps of the snapshot writes.  They read the local caches and       *)
(* change only `saves` and `disk`, which no request handler reads.         *)
(***************************************************************************)
Persistence ==
  \/ SaveMkdirDone
  \/ \E p \in saves.writes : SaveWriteDone(p)
  \/ SaveFails

(***************************************************************************)
(* Spec: submissions that carry the server key, with good and with         *)
(* wrong-length signatures, valid and invalid bodies.                      *)
(***************************************************************************)
Next ==
  \/ \E ep \in Endpoints : \E req \in ValidRequests(ep) : DirectRequest(ep, req, MaxJobs)
  \/ \E ep \in Endpoints : \E req \in InvalidBodyRequests(ep) : DirectRequest(ep, req, MaxJobs)
  \/ \E ep \in Endpoints : \E req \in ShortSigRequests(ep) : DirectRequest(ep, req, MaxJobs)
  \/ Internal(LedgerErrors, ReceiptStatuses)

Spec == Init /\ [][Next]_vars

(***************************************************************************)
(* SpecQueue: valid submissions on both endpoints, under different request *)
(* ids.                                                                    *)
(***************************************************************************)
NextQueue ==
  \/ \E ep \in Endpoints : \E req \in KeyedRequests(ep) : DirectRequest(ep, req, MaxQueueJobs)
  \/ Internal({MsgReverted}, {"success"})

SpecQueue == Init /\ [][NextQueue]_vars

\* SpecQueueFair: the same, where the ledger client answers every call in
\* the end: a write is accepted or rejected, a receipt arrives or fails.
TaskSettles ==
  \E j \in 1..Len(jobs) :
    JobWriteSent(j) \/ JobFails(j, MsgReverted) \/ JobReceipt(j, "success")

FairRids == {"r1", "r2", "r3"}

NextQueueFair ==
  \/ \E ep \in Endpoints : \E req \in {r \in KeyedRequests(ep) : r.ridHdr \in FairRids} :
       DirectRequest(ep, req, MaxQueueJobs)
  \/ Internal({MsgReverted}, {"success"})

SpecQueueFair == Init /\ [][NextQueueFair]_vars /\ WF_vars(TaskSettles)

(***************************************************************************)
(* SpecDoneFair: submissions with and without a request id, valid and      *)
(* invalid, whose ledger calls and statistics reads all settle in the end, *)
(* with success or with an error.                                          *)
(***************************************************************************)
MaxDoneJobs == 2   \* submissions accepted in SpecDoneFair

StatsSettle == \E j \in 1..Len(jobs) : StatsDone(j)

NextDone ==
  \/ \E ep \in Endpoints : \E req \in ValidRequests(ep) : DirectRequest(ep, req, MaxDoneJobs)
  \/ \E ep \in Endpoints : \E req \in InvalidBodyRequests(ep) : DirectRequest(ep, req, MaxDoneJobs)
  \/ Internal({MsgReverted}, {"success"})

SpecDoneFair ==
  Init /\ [][NextDone]_vars /\ WF_vars(TaskSettles) /\ WF_vars(StatsSettle)

(***************************************************************************)
(* SpecAuth: requests sent to the service and operator endpoints from      *)
(* outside, that pass or fail the checks made before the rate limiter.     *)
(***************************************************************************)
NextAuth ==
  \/ \E ep \in Endpoints :
       \E req \in {DirectReq("", API_SECRET, "fresh", "good", <<"r1", "">>, GoodBody(ep, ""))} :
         DirectRequest(ep, req, MaxAuthJobs)
  \/ \E ep \in Endpoints : \E req \in UnauthenticRequests(ep) : DirectRequest(ep, req, MaxAuthJobs)
  \/ \E ep \in Endpoints : \E req \in ShortSigRequests(ep) : DirectRequest(ep, req, MaxAuthJobs)
  \/ \E ep \in OperatorEndpoints : \E key \in PresentedKeys : \E hashOk \in BOOLEAN :
       OperatorRequest(ep, key, hashOk)
  \/ Internal(LedgerErrors, ReceiptStatuses)

SpecAuth == Init /\ [][NextAuth]_vars

(***************************************************************************)
(* SpecProxy: requests sent to the browser-facing proxies, and the         *)
(* requests the proxies send on to the service endpoints.                  *)
(***************************************************************************)
NextProxy ==
  \/ \E ep \in Endpoints : \E creq \in ClientRequests(ep) : ProxyRequest(ep, creq, "n1")
  \/ \E f \in forwards : ForwardedRequest(f, MaxProxyJobs)
  \/ Internal(LedgerErrors, ReceiptStatuses)

SpecProxy == Init /\ [][NextProxy]_vars

(***************************************************************************)
(* SpecHmac: verifyHmac on a request as its sender signed it, and on the   *)
(* same request with one header or the body replaced on the way.           *)
(***************************************************************************)
\* x-timestamp texts around second 100 (StartMs): the canonical text, other
\* spellings of the same number, a fraction, the ends of the skew window,
\* an unfinished exponent, an overflowing one.
TsTexts ==
  {<<"1", "0", "0">>, <<"0", "1", "0", "0">>, <<"1", "e", "2">>, <<"1", "0", "0", ".", "0">>,
   <<"1", "0", "0", ".", "5">>, <<"4", "0">>, <<"3", "9">>, <<"1", "6", "0">>,
   <<"1", "6", "1">>, <<"1", "e">>, <<"1", "e", "9", "9", "9">>}
Nonces == {"n1", "n2"}
HmacBodies == {GoodUpdate("r1"), GoodUpdate("r2")}

\* The sender signs v1:<ts>:<nonce>:<sha256(body)> with the text of the
\* timestamp it sends.
SignedBy(secret, ts, nonce, body) ==
  ServiceReq("", API_SECRET, ts, nonce,
             HexSig(FALSE, "full", HmacSha256(secret, SignedPayload(ts, nonce, sha256Hex(body)))),
             TRUE, body, ClientIp, "")

\* The request arrives as it was sent.
Arrives(ts, nonce, body) ==
  LET r == SignedBy(HMAC_SECRET, ts, nonce, body)
  IN /\ hmacCase' = [sent |-> r, received |-> r,
                     sentVerdict |-> verifyHmac(r, now), verdict |-> verifyHmac(r, now)]
     /\ UNCHANGED <<auxVars, now, rateStore, rateLog, dedupCache, queueVars, cacheVars, diskVars, forwards, last>>

\* What can replace a part of the request sent.
Alterations(r) ==
  {[r EXCEPT !.ts = t] : t \in TsTexts \cup {<<>>}}
  \cup {[r EXCEPT !.nonce = n] : n \in Nonces \cup {""}}
  \cup {[r EXCEPT !.body = b] : b \in HmacBodies}
  \cup {[r EXCEPT !.sig = g] :
          g \in {NoSig, HexSig(TRUE, "full", r.sig.val), HexSig(FALSE, "short", r.sig.val),
                 SignedBy(WrongSecret, r.ts, r.nonce, r.body).sig}}

\* The request sent arrives with one part replaced.
ArrivesAltered(r) ==
  /\ hmacCase.sent # NoReq
  /\ r \in Alterations(hmacCase.sent)
  /\ hmacCase' = [hmacCase EXCEPT !.received = r, !.verdict = verifyHmac(r, now)]
  /\ UNCHANGED <<auxVars, now, rateStore, rateLog, dedupCache, queueVars, cacheVars, diskVars, forwards, last>>

NextHmac ==
  \/ \E ts \in TsTexts : \E nonce \in Nonces : \E body \in HmacBodies : Arrives(ts, nonce, body)
  \/ \E r \in Alterations(hmacCase.sent) : ArrivesAltered(r)

SpecHmac == Init /\ [][NextHmac]_vars

(***************************************************************************)
(* The clock, and GET /api/leaderboard/recent (server.ts:1091-1125), the   *)
(* simplest user of the rate limiter.                                      *)
(***************************************************************************)
MaxRateTicks == 6   \* clock steps taken in SpecRate

\* Date.now() moves on by a quarter of the rate window.
Tick(maxTicks) ==
  /\ now < StartMs + maxTicks * (RATE_WINDOW_MS \div 4)
  /\ now' = now + (RATE_WINDOW_MS \div 4)
  /\ UNCHANGED <<auxVars, hmacCase, rateStore, rateLog, dedupCache, queueVars, cacheVars,
                 diskVars, forwards, last>>

\* Number(req.query.limit || fallback) clamped to 1..cap, `dflt` when the
\* number is not finite; the text is an unsigned decimal literal or empty.
queryLimit(text, fallback, cap, dflt) ==
  LET v == ToNumber(text)
      trunc == IF v.e > 6 THEN cap
               ELSE IF v.e >= 0 THEN v.m * Pow10(v.e)
               ELSE v.m \div Pow10(-v.e)
      n == IF Len(text) = 0 THEN fallback ELSE trunc
      atLeast1 == IF n < 1 THEN 1 ELSE n
  IN IF Len(text) > 0 /\ ~IsFinite(v) THEN dflt
     ELSE IF atLeast1 > cap THEN cap ELSE atLeast1

\* recentHands.slice(-limit).reverse().map(...): newest first, seconds
\* turned into milliseconds.  The source tells seconds from milliseconds at
\* 10^12, beyond the integers of the checker; the model's clock stays below
\* 10^9 either way.
recentItems(hands, limit) ==
  LET l == LastN(hands, limit)
  IN [i \in 1..Len(l) |->
        LET h == l[Len(l) + 1 - i]
        IN [h EXCEPT !.timestamp = IF @ < Pow10(9) THEN @ * 1000 ELSE @]]

\* A response, with the time it is sent at and the ledger of that moment.
GetResponse(ep, limit, force, status, retryAfter, cached, items, updatedAt) ==
  [ep |-> ep, limit |-> limit, force |-> force, status |-> status,
   retryAfter |-> retryAfter, cached |-> cached, items |-> items, updatedAt |-> updatedAt,
   at |-> now, ledger |-> ledger]

\* The limiter's verdict rl on the request decides the answer.
RecentHandled(origin, limit, rl) ==
  /\ IF ~corsOrigin(origin)
     THEN /\ lastGet' = GetResponse("recent", limit, FALSE, 500, -1, FALSE, <<>>, 0)
          /\ UNCHANGED <<rateStore, rateLog>>
     ELSE IF ~validateOrigin(origin)
     THEN /\ lastGet' = GetResponse("recent", limit, FALSE, 403, -1, FALSE, <<>>, 0)
          /\ UNCHANGED <<rateStore, rateLog>>
     ELSE /\ rateStore' = rl.store
          /\ rateLog' = Admitted(rateLog, rateStore, rl.store, now)
          /\ lastGet' =
               IF ~rl.allowed
               THEN GetResponse("recent", limit, FALSE, 429, rl.retryAfter, FALSE, <<>>, 0)
               ELSE GetResponse("recent", limit, FALSE, 200, -1, FALSE,
                      recentItems(recentHands,
                        queryLimit(limit, 50, RECENT_HANDS_SIZE,
                                   IF 50 < RECENT_HANDS_SIZE THEN 50 ELSE RECENT_HANDS_SIZE)),
                      0)
  /\ UNCHANGED <<boardVars, indexVars, now, hmacCase, dedupCache, queueVars, cacheVars,
                 diskVars, forwards, last>>

RecentRequest(origin, ip, limit) ==
  RecentHandled(origin, limit, isAllowed(rateStore, IF ip # "" THEN ip ELSE "global", now))

LimitTexts == {<<>>, <<"1">>, <<"2", "0", "0">>}

(***************************************************************************)
(* The leaderboards: GET /api/leaderboard (server.ts:910-1000) and         *)
(* GET /api/leaderboard/global (server.ts:1003-1088).  A handler that      *)
(* recomputes waits for its ledger reads; they are taken here at the       *)
(* moment the last of them settles.                                        *)
(***************************************************************************)
MaxGets == 2            \* leaderboard requests sent in SpecBoard
MaxBootGets == 2        \* leaderboard requests sent in SpecBoot
MaxReads == 2           \* leaderboard handlers waiting for the ledger at a time
MaxRestarts == 1        \* restarts of the process
MaxLedgerChanges == 1   \* changes of the ledger made by anyone
MaxBoardJobs == 1       \* submissions accepted in SpecBoard and in SpecBoot
MaxBoardTicks == 1      \* clock steps taken in SpecBoard

Scopes == {"game", "global"}
\* what the players hold in the other games of the contract
OtherGames == [a \in Accounts |->
                 IF a = "0xB" THEN [score |-> 2, transactions |-> 0]
                 ELSE [score |-> 0, transactions |-> 0]]

\* playerDataPerGame, or totalScoreOfPlayer with totalTransactionsOfPlayer;
\* a read that throws counts as zero
\* one failed read makes every read of the aggregation count as failed
readContract_anyFailureZeroesAll(scope, p, failed) ==
  IF failed # {} THEN [player |-> p, score |-> 0, transactions |-> 0]
  ELSE IF scope = "game"
  THEN [player |-> p, score |-> ledger[accountOf(p)].score,
        transactions |-> ledger[accountOf(p)].transactions]
  ELSE [player |-> p, score |-> ledger[accountOf(p)].score + OtherGames[accountOf(p)].score,
        transactions |-> ledger[accountOf(p)].transactions
                           + OtherGames[accountOf(p)].transactions]

readContract(scope, p, failed) ==
  IF p \in failed THEN [player |-> p, score |-> 0, transactions |-> 0]
  ELSE IF scope = "game"
  THEN [player |-> p, score |-> ledger[accountOf(p)].score,
        transactions |-> ledger[accountOf(p)].transactions]
  ELSE [player |-> p, score |-> ledger[accountOf(p)].score + OtherGames[accountOf(p)].score,
        transactions |-> ledger[accountOf(p)].transactions
                           + OtherGames[accountOf(p)].transactions]

\* The comparator of the three sorts is negative: a goes before b.
sortsBefore_scoreOnly(a, b) == a.score > b.score

sortsBefore(a, b) ==
  \/ a.score > b.score
  \/ a.score = b.score /\ a.transactions > b.transactions

\* Array.prototype.sort, which is stable
RECURSIVE sortItems(_)
sortItems(items) ==
  IF Len(items) <= 1 THEN items
  ELSE LET rest == sortItems(Tail(items))
           k == Cardinality({i \in 1..Len(rest) : sortsBefore(rest[i], Head(items))})
       IN SubSeq(rest, 1, k) \o <<Head(items)>> \o SubSeq(rest, k + 1, Len(rest))

\* slice(0, limit)
FirstN(s, n) == IF Len(s) > n THEN SubSeq(s, 1, n) ELSE s

\* The addresses of a set in the order the process met them; the model's
\* submissions name 0xA before 0xB, and 0xa after both.
PlayerSeq(set) == SelectSeq(<<"0xA", "0xB", "0xa">>, LAMBDA a : a \in set)

\* Array.from(unionSet).filter(isAddress)
unionPlayers(totals, known) ==
  PlayerSeq({a \in PlayerAddrs : totals[a].set} \cup {a \in known : isAddress(a)})

boardPayload(scope, total, items, updatedAt) ==
  [scope |-> scope, totalPlayers |-> total, count |-> Len(items), items |-> items,
   updatedAt |-> updatedAt]

\* saveSnapshot({ lastItems, lastItemsUpdatedAt }): the call returns at
\* `await fs.mkdir`
saveSnapshotWith(sv, items, updatedAt) ==
  [sv EXCEPT !.items = @ \cup {[set |-> TRUE, items |-> items, updatedAt |-> updatedAt]}]

\* mapConcurrent (server.ts:941-955, 1034-1048).  A pool holds `next`, the
\* results array, the indices (from 1) whose fn call is awaited, and, as
\* history, how often fn was called for each index.
NoSlot == [set |-> FALSE, value |-> [player |-> "", score |-> 0, transactions |-> 0]]

\* a worker for every element of the array
poolSize_unbounded(concurrency, n) == n

\* Math.min(concurrency, arr.length)
poolSize(concurrency, n) == IF concurrency < n THEN concurrency ELSE n

\* const i = next++; if (i >= arr.length) break; ... fn(arr[i], i): the worker
\* takes the next index or ends
takeNext(pool, n) ==
  IF pool.next < n
  THEN [pool EXCEPT !.next = @ + 1, !.flying = @ \cup {pool.next + 1},
                    !.issued[pool.next + 1] = @ + 1]
  ELSE [pool EXCEPT !.next = @ + 1]

\* the workers are created one after the other; each runs up to its first await
RECURSIVE startWorkers(_, _, _)
startWorkers(pool, n, w) ==
  IF w = 0 THEN pool ELSE startWorkers(takeNext(pool, n), n, w - 1)

mapConcurrent(n, concurrency) ==
  startWorkers([next |-> 0, flying |-> {}, results |-> [k \in 1..n |-> NoSlot],
                issued |-> [k \in 1..n |-> 0]],
               n, poolSize(concurrency, n))

\* the result of a read goes to the slot of the next index
slotOf_next(pool, k, n) == IF pool.next < n THEN pool.next + 1 ELSE k

\* results[i] = await fn(arr[i], i): i is the index the worker took
slotOf(pool, k, n) == k

\* fn(arr[k], k) settles with value v: the worker stores it and goes on
readSettled(pool, n, k, v) ==
  takeNext([pool EXCEPT !.results[slotOf(pool, k, n)] = [set |-> TRUE, value |-> v],
                        !.flying = @ \ {k}], n)

\* The handler up to its response or to the ledger reads; rl is the verdict
\* of the rate limiter, cache the cache entry of the scope.
BoardHandled(scope, origin, limit, force, maxGets, rl, cache) ==
  /\ spent.gets < maxGets
  /\ spent' = [spent EXCEPT !.gets = @ + 1]
  /\ IF ~corsOrigin(origin)
     THEN /\ lastGet' = GetResponse(scope, limit, force, 500, -1, FALSE, <<>>, 0)
          /\ UNCHANGED <<rateStore, rateLog, reads>>
     ELSE IF ~validateOrigin(origin)
     THEN /\ lastGet' = GetResponse(scope, limit, force, 403, -1, FALSE, <<>>, 0)
          /\ UNCHANGED <<rateStore, rateLog, reads>>
     ELSE /\ rateStore' = rl.store
          /\ rateLog' = Admitted(rateLog, rateStore, rl.store, now)
          /\ IF ~rl.allowed
             THEN /\ lastGet' = GetResponse(scope, limit, force, 429, rl.retryAfter, FALSE,
                                            <<>>, 0)
                  /\ UNCHANGED reads
             ELSE IF ~force /\ cache.set /\ now - cache.ts < LEADERBOARD_CACHE_TTL_MS
             THEN /\ lastGet' = GetResponse(scope, limit, force, 200, -1, TRUE,
                                            cache.payload.items, cache.payload.updatedAt)
                  /\ UNCHANGED reads
             ELSE /\ Len(reads) < MaxReads
                  /\ reads' = Append(reads,
                       [scope |-> scope, limit |-> limit, force |-> force,
                        n |-> queryLimit(limit, 50, 200, 50),
                        players |-> unionPlayers(localTotals, knownPlayers),
                        pool |-> mapConcurrent(
                                   Len(unionPlayers(localTotals, knownPlayers)),
                                   LEADERBOARD_READ_CONCURRENCY)])
                  /\ UNCHANGED lastGet
  /\ UNCHANGED <<ledger, leaderboardCache, globalLeaderboardCache, snapshotLoading, indexVars,
                 now, hmacCase, dedupCache, queueVars, cacheVars, diskVars, forwards, last>>

BoardRequest(scope, origin, ip, limit, force, maxGets) ==
  BoardHandled(scope, origin, limit, force, maxGets,
               isAllowed(rateStore, IF ip # "" THEN ip ELSE "global", now),
               IF scope = "game" THEN leaderboardCache ELSE globalLeaderboardCache)

\* reads.map(...).sort(...).slice(0, limit)
aggregate(r, failed) ==
  FirstN(sortItems([i \in 1..Len(r.players) |-> readContract(r.scope, r.players[i], failed)]),
         r.n)

\* The reads of handler i have settled: the payload is built, cached and sent;
\* the competition handler has it saved first.
Aggregated(i, items) ==
  /\ lastGet' = GetResponse(reads[i].scope, reads[i].limit, reads[i].force, 200, -1, FALSE,
                            items, now)
  /\ IF reads[i].scope = "game"
     THEN /\ leaderboardCache' =
               [set |-> TRUE, ts |-> now,
                payload |-> boardPayload("game", Len(reads[i].players), items, now)]
          /\ saves' = saveSnapshotWith(saves, items, now)
          /\ UNCHANGED globalLeaderboardCache
     ELSE /\ globalLeaderboardCache' =
               [set |-> TRUE, ts |-> now,
                payload |-> boardPayload("global", Len(reads[i].players), items, now)]
          /\ UNCHANGED <<leaderboardCache, saves>>
  /\ reads' = SubSeq(reads, 1, i - 1) \o SubSeq(reads, i + 1, Len(reads))
  /\ UNCHANGED <<ledger, snapshotLoading, spent, indexVars, now, hmacCase, rateStore, rateLog,
                 dedupCache, queueVars, cacheVars, disk, forwards, last>>

ReadsSettle(i, failed) ==
  /\ i \in 1..Len(reads)
  /\ Aggregated(i, aggregate(reads[i], failed))

\* The read of index k of handler i settles, with an error or with what the
\* ledger holds now.  When no worker is left the results are mapped, sorted
\* and cut; reading `.player` of an empty slot throws, which the handler's
\* catch answers with 500.
PoolReadSettles(i, k, ok) ==
  /\ i \in 1..Len(reads) /\ k \in reads[i].pool.flying
  /\ LET r == reads[i]
         n == Len(r.players)
         v == readContract(r.scope, r.players[k], IF ok THEN {} ELSE {r.players[k]})
         pool == readSettled(r.pool, n, k, v)
     IN IF pool.flying # {}
        THEN /\ reads' = [reads EXCEPT ![i].pool = pool]
             /\ UNCHANGED <<lastGet, leaderboardCache, globalLeaderboardCache, saves,
                            ledger, snapshotLoading, spent, indexVars, now, hmacCase,
                            rateStore, rateLog, dedupCache, queueVars, cacheVars, disk,
                            forwards, last>>
        ELSE IF \A x \in 1..n : pool.results[x].set
        THEN Aggregated(i, FirstN(sortItems([x \in 1..n |-> pool.results[x].value]), r.n))
        ELSE /\ lastGet' = GetResponse(r.scope, r.limit, r.force, 500, -1, FALSE, <<>>, 0)
             /\ reads' = SubSeq(reads, 1, i - 1) \o SubSeq(reads, i + 1, Len(reads))
             /\ UNCHANGED <<leaderboardCache, globalLeaderboardCache, saves, ledger,
                            snapshotLoading, spent, indexVars, now, hmacCase, rateStore,
                            rateLog, dedupCache, queueVars, cacheVars, disk, forwards, last>>

\* saveSnapshot with lastItems after `await fs.mkdir`
SaveItemsMkdirDone(x) ==
  /\ x \in saves.items
  /\ saves' = [saves EXCEPT !.items = @ \ {x},
                            !.writes = @ \cup {[SnapshotPayload EXCEPT !.lastItems = x]}]
  /\ UNCHANGED <<auxVars, now, hmacCase, rateStore, rateLog, dedupCache, queueVars, cacheVars,
                 disk, forwards, last>>

\* Someone's transaction changes what the contract holds for a player.
LedgerChanges(p, v) ==
  /\ spent.ledger < MaxLedgerChanges
  /\ ledger[p] # v
  /\ ledger' = [ledger EXCEPT ![p] = v]
  /\ spent' = [spent EXCEPT !.ledger = @ + 1]
  /\ UNCHANGED <<lastGet, leaderboardCache, globalLeaderboardCache, reads, snapshotLoading,
                 indexVars, now, hmacCase, rateStore, rateLog, dedupCache, queueVars,
                 cacheVars, diskVars, forwards, last>>

(***************************************************************************)
(* Startup: loadSnapshot and the warming of the cache (server.ts:60-99,    *)
(* 218-256), which run in one turn once the file was read or found         *)
(* missing; and the restart of the process, which keeps the file only.     *)
(***************************************************************************)
\* The cache entry after the warm-up: the snapshot's items as they are, else
\* the local totals sorted, else no change.
warmCache(file, totals, known, cache, nowMs) ==
  IF file.exists /\ file.lastItems.set
  THEN [set |-> TRUE, ts |-> nowMs,
        payload |-> boardPayload("game", Cardinality(known),
                      SelectSeq(file.lastItems.items, LAMBDA x : isAddress(x.player)),
                      file.lastItems.updatedAt)]
  ELSE IF \E a \in PlayerAddrs : totals[a].set
  THEN LET keys == PlayerSeq({a \in PlayerAddrs : totals[a].set})
           items == sortItems([i \in 1..Len(keys) |->
                      [player |-> keys[i], score |-> totals[keys[i]].score,
                       transactions |-> totals[keys[i]].transactions]])
       IN [set |-> TRUE, ts |-> nowMs,
           payload |-> boardPayload("game", Len(keys), items, nowMs)]
  ELSE cache

\* What loadSnapshot leaves in memory: the file's players are added, its
\* totals replace those of the same address, its cursor and recent hands
\* replace the ones in memory.
Loaded(file, known, totals) ==
  /\ knownPlayers' = known
  /\ localTotals' = totals
  /\ leaderboardCache' = warmCache(file, totals, known, leaderboardCache, now)
  /\ IF file.exists
     THEN /\ recentHands' = LastN(file.recentHands, RECENT_HANDS_SIZE)
          /\ lastProcessedBlock' = IF file.lastProcessedBlock >= 0
                                   THEN file.lastProcessedBlock ELSE lastProcessedBlock
     ELSE UNCHANGED <<recentHands, lastProcessedBlock>>

SnapshotLoaded ==
  /\ snapshotLoading
  /\ snapshotLoading' = FALSE
  /\ Loaded(disk,
            knownPlayers \cup (IF disk.exists THEN {a \in disk.knownPlayers : isAddress(a)}
                               ELSE {}),
            [a \in PlayerAddrs |-> IF disk.exists /\ disk.localTotals[a].set
                                   THEN disk.localTotals[a] ELSE localTotals[a]])
  /\ UNCHANGED <<lastGet, ledger, globalLeaderboardCache, reads, spent, indexing, chainHead,
                 scanned, indexRun, now, hmacCase, rateStore, rateLog, dedupCache, queueVars,
                 diskVars, forwards, last>>

\* The process is stopped and started again: memory is as after
\* construction; the file, the chain and the clock remain.
Restart ==
  /\ spent.restarts < MaxRestarts
  /\ spent' = [spent EXCEPT !.restarts = @ + 1]
  /\ rateStore' = [k \in RateKeys |-> NoRateEntry]
  /\ rateLog' = [k \in RateKeys |-> <<>>]
  /\ dedupCache' = [k \in Rids |-> NoRecord]
  /\ q' = <<>> /\ running' = FALSE /\ jobs' = <<>> /\ started' = <<>>
  /\ knownPlayers' = {}
  /\ localTotals' = [a \in PlayerAddrs |-> NoTotals]
  /\ recentHands' = <<>>
  /\ saves' = NoSaves
  /\ forwards' = {}
  /\ last' = NoResponse
  /\ lastGet' = NoGet
  /\ leaderboardCache' = NoCache
  /\ globalLeaderboardCache' = NoCache
  /\ reads' = <<>>
  /\ snapshotLoading' = TRUE
  /\ lastProcessedBlock' = LEADERBOARD_FROM_BLOCK
  /\ indexing' = FALSE
  /\ indexRun' = NoRun
  /\ UNCHANGED <<now, disk, ledger, chainHead, scanned, hmacCase>>

(***************************************************************************)
(* SpecBoard: one batch submission, the leaderboards of both scopes with   *)
(* reads that fail, a change of the ledger, and the clock.  The snapshot   *)
(* writes, which no handler reads, stay pending.                           *)
(***************************************************************************)
BoardSubmission == DirectReq("", API_SECRET, "fresh", "good", <<"r1", "">>, GoodBatch(""))

\* limit and force of the query string
BoardQueries == {<<<<>>, FALSE>>, <<<<"1">>, FALSE>>, <<<<"1">>, TRUE>>}

NextBoard ==
  \/ DirectRequest("batch", BoardSubmission, MaxBoardJobs)
  \/ \E j \in 1..Len(jobs) : JobWriteSent(j)
  \/ \E j \in 1..Len(jobs) : JobReceipt(j, "success")
  \/ \E j \in 1..Len(jobs) : StatsDone(j)
  \/ \E scope \in Scopes, query \in BoardQueries :
       BoardRequest(scope, "", ClientIp, query[1], query[2], MaxGets)
  \/ \E i \in 1..Len(reads) : \E failed \in {{}, {"0xA"}} : ReadsSettle(i, failed)
  \/ \E v \in LedgerValues : LedgerChanges("0xA", v)
  \/ SnapshotLoaded
  \/ Tick(MaxBoardTicks)

SpecBoard == Init /\ [][NextBoard]_vars

(***************************************************************************)
(* SpecPool: a batch submission of three addresses, then leaderboard       *)
(* requests of both scopes whose ledger reads settle one by one, in any    *)
(* order and some with an error, while the ledger changes.                 *)
(***************************************************************************)
MaxPoolGets == 2   \* leaderboard requests sent in SpecPool
MaxPoolJobs == 1   \* submissions accepted in SpecPool

PoolSubmission ==
  DirectReq("", API_SECRET, "fresh", "good", <<"r1", "">>,
            BatchBody("", <<"0xA", "0xB", "0xa">>, <<TRUE, FALSE, FALSE>>, "room1", "1"))

NextPool ==
  \/ DirectRequest("batch", PoolSubmission, MaxPoolJobs)
  \/ \E j \in 1..Len(jobs) : JobWriteSent(j)
  \/ \E j \in 1..Len(jobs) : JobReceipt(j, "success")
  \/ \E j \in 1..Len(jobs) : StatsDone(j)
  \/ \E scope \in Scopes : BoardRequest(scope, "", ClientIp, <<>>, TRUE, MaxPoolGets)
  \/ \E i \in 1..Len(reads) : \E k \in reads[i].pool.flying, ok \in BOOLEAN :
       PoolReadSettles(i, k, ok)
  \/ \E i \in 1..Len(reads) : reads[i].players = <<>> /\ ReadsSettle(i, {})
  \/ \E v \in LedgerValues : LedgerChanges("0xA", v)

SpecPool == Init /\ [][NextPool]_vars

(***************************************************************************)
(* SpecBoot: a batch submission, leaderboard requests, the snapshot        *)
(* writes, and a restart that loads the snapshot and warms the cache.      *)
(* Ledger writes, ledger reads and snapshot writes succeed here.           *)
(***************************************************************************)
NextBoot ==
  \/ DirectRequest("batch", BoardSubmission, MaxBoardJobs)
  \/ \E j \in 1..Len(jobs) : JobWriteSent(j)
  \/ \E j \in 1..Len(jobs) : JobReceipt(j, "success")
  \/ \E j \in 1..Len(jobs) : StatsDone(j)
  \/ SaveMkdirDone
  \/ \E x \in saves.items : SaveItemsMkdirDone(x)
  \/ \E p \in saves.writes : SaveWriteDone(p)
  \/ \E scope \in Scopes, limit \in {<<>>, <<"1">>} :
       BoardRequest(scope, "", ClientIp, limit, FALSE, MaxBootGets)
  \/ \E i \in 1..Len(reads) : ReadsSettle(i, {})
  \/ SnapshotLoaded
  \/ Restart

SpecBoot == Init /\ [][NextBoot]_vars

(***************************************************************************)
(* The indexer, runIndexerOnce (server.ts:259-306), started by timers      *)
(* (server.ts:309-313).  A run waits for the head of the chain, then, for  *)
(* each chunk, for its logs and, when they named a new player, for a       *)
(* snapshot save; a last save ends the run.                                *)
(***************************************************************************)
MaxHead == 6   \* the chain grows up to this block number

\* to = from + chunkSize - 1n <= head ? from + chunkSize - 1n : head
chunkEnd(from, head) ==
  IF from + LEADERBOARD_INDEX_CHUNK_BLOCKS - 1 <= head
  THEN from + LEADERBOARD_INDEX_CHUNK_BLOCKS - 1 ELSE head

\* A block is added to the chain.
NewBlock(maxHead) ==
  /\ chainHead < maxHead
  /\ chainHead' = chainHead + 1
  /\ UNCHANGED <<lastGet, boardVars, lastProcessedBlock, indexing, scanned, indexRun, now,
                 hmacCase, rateStore, rateLog, dedupCache, queueVars, cacheVars, diskVars,
                 forwards, last>>

\* a call that never finds a run in progress
Busy_never(flag) == FALSE

\* if (indexing) return
Busy(flag) == flag

\* A timer calls runIndexerOnce; a call during a run returns at once.
IndexerStart ==
  /\ IF Busy(indexing)
     THEN UNCHANGED <<indexing, indexRun>>
     ELSE /\ indexing' = TRUE
          /\ indexRun' = [NoRun EXCEPT !.pc = "head"]
  /\ UNCHANGED <<lastGet, boardVars, lastProcessedBlock, chainHead, scanned, now, hmacCase,
                 rateStore, rateLog, dedupCache, queueVars, cacheVars, diskVars, forwards, last>>

\* getBlockNumber settles: with an error the run ends in `finally`; else the
\* first chunk is asked for, unless the cursor is at the head.
IndexerHead(ok) ==
  /\ indexRun.pc = "head"
  /\ LET from == IF lastProcessedBlock > 0 THEN lastProcessedBlock + 1
                 ELSE IF LEADERBOARD_FROM_BLOCK > 0 THEN LEADERBOARD_FROM_BLOCK ELSE 0
     IN IF ~ok \/ from > chainHead
        THEN indexing' = FALSE /\ indexRun' = NoRun
        ELSE /\ indexRun' = [pc |-> "logs", from |-> from, to |-> chunkEnd(from, chainHead),
                             head |-> chainHead]
             /\ UNCHANGED indexing
  /\ UNCHANGED <<lastGet, boardVars, lastProcessedBlock, chainHead, scanned, now, hmacCase,
                 rateStore, rateLog, dedupCache, queueVars, cacheVars, diskVars, forwards, last>>

\* The run goes on after a chunk: to the next chunk, or to the last save.
afterChunk(r) ==
  IF r.to + 1 <= r.head
  THEN [r EXCEPT !.pc = "logs", !.from = r.to + 1, !.to = chunkEnd(r.to + 1, r.head)]
  ELSE [r EXCEPT !.pc = "mkdir-last", !.from = r.to + 1]

\* the loop goes on with the chunk after the one whose read failed
onChunkError_goesOn(r) == afterChunk(r)

\* catch (_e) { break }: the run goes to the save after the loop
onChunkError(r) == [r EXCEPT !.pc = "mkdir-last"]

\* getLogs settles: with an error the loop is left; else the players of the
\* logs are added and the cursor moves to the end of the chunk.
IndexerLogs(ok, players) ==
  /\ indexRun.pc = "logs"
  /\ IF ~ok
     THEN /\ indexRun' = onChunkError(indexRun)
          /\ UNCHANGED <<knownPlayers, lastProcessedBlock, scanned>>
     ELSE /\ knownPlayers' = knownPlayers \cup {a \in players : isAddress(a)}
          /\ lastProcessedBlock' = indexRun.to
          /\ scanned' = scanned \cup (indexRun.from .. indexRun.to)
          /\ indexRun' = IF \E a \in players : isAddress(a) /\ a \notin knownPlayers
                         THEN [indexRun EXCEPT !.pc = "mkdir"]
                         ELSE afterChunk(indexRun)
  /\ UNCHANGED <<lastGet, boardVars, indexing, chainHead, now, hmacCase, rateStore, rateLog,
                 dedupCache, queueVars, localTotals, recentHands, diskVars, forwards, last>>

\* The saveSnapshot the run waits for: fs.mkdir settles and the payload is
\* built, then fs.writeFile settles; an error of either ends the save.
IndexerSaveStep(ok) ==
  /\ indexRun.pc \in {"mkdir", "mkdir-last", "write", "write-last"}
  /\ LET last_ == indexRun.pc \in {"mkdir-last", "write-last"}
         saved == indexRun.pc \in {"write", "write-last"} \/ ~ok
     IN /\ disk' = IF indexRun.pc \in {"write", "write-last"} /\ ok
                   THEN indexRun.payload ELSE disk
        /\ IF ~saved
           THEN /\ indexRun' = [pc |-> IF last_ THEN "write-last" ELSE "write",
                                from |-> indexRun.from, to |-> indexRun.to,
                                head |-> indexRun.head, payload |-> SnapshotPayload]
                /\ UNCHANGED indexing
           ELSE IF last_
           THEN indexing' = FALSE /\ indexRun' = NoRun
           ELSE /\ indexRun' = afterChunk([pc |-> "", from |-> indexRun.from,
                                           to |-> indexRun.to, head |-> indexRun.head])
                /\ UNCHANGED indexing
  /\ UNCHANGED <<lastGet, boardVars, lastProcessedBlock, chainHead, scanned, now, hmacCase,
                 rateStore, rateLog, dedupCache, queueVars, cacheVars, saves, forwards, last>>

(***************************************************************************)
(* SpecIndex: the indexer with failing reads and writes, a growing chain,  *)
(* the startup load of the snapshot, and restarts.                         *)
(***************************************************************************)
NextIndex ==
  \/ NewBlock(MaxHead)
  \/ IndexerStart
  \/ \E ok \in BOOLEAN : IndexerHead(ok)
  \/ \E ok \in BOOLEAN, players \in {{}, {"0xA"}} : IndexerLogs(ok, players)
  \/ \E ok \in BOOLEAN : IndexerSaveStep(ok)
  \/ SnapshotLoaded
  \/ Restart

SpecIndex == Init /\ [][NextIndex]_vars

(***************************************************************************)
(* SpecIndexRun: the same, for processes whose startup load of the         *)
(* snapshot has settled when the timer calls the indexer for the first     *)
(* time (1.5 s after the start, server.ts:312).                            *)
(***************************************************************************)
NextIndexRun ==
  \/ NewBlock(MaxHead)
  \/ ~snapshotLoading /\ IndexerStart
  \/ \E ok \in BOOLEAN : IndexerHead(ok)
  \/ \E ok \in BOOLEAN, players \in {{}, {"0xA"}} : IndexerLogs(ok, players)
  \/ \E ok \in BOOLEAN : IndexerSaveStep(ok)
  \/ SnapshotLoaded
  \/ Restart

SpecIndexRun == Init /\ [][NextIndexRun]_vars

(***************************************************************************)
(* SpecCase: two batch submissions that name one account, the first in     *)
(* the checksummed and the second in the all-lowercase form of its         *)
(* address, an indexer run that finds the checksummed form in the logs,    *)
(* and the competition leaderboard.                                        *)
(***************************************************************************)
MaxCaseJobs == 2   \* submissions accepted in SpecCase
MaxCaseGets == 2   \* leaderboard requests sent in SpecCase
MaxCaseHead == 3   \* the chain grows up to this block number in SpecCase

CaseSubmission(k) ==
  LET h == <<<<"r1", "1", "0xA">>, <<"r2", "2", "0xa">>>>[k]
  IN DirectReq("", API_SECRET, "fresh", "good", <<h[1], "">>,
               BatchBody("", <<h[3]>>, <<TRUE>>, "room1", h[2]))

NextCase ==
  \/ \E k \in {Len(jobs) + 1} \cap (1..2) :
       DirectRequest("batch", CaseSubmission(k), MaxCaseJobs)
  \/ \E j \in 1..Len(jobs) : JobWriteSent(j)
  \/ \E j \in 1..Len(jobs) : JobReceipt(j, "success")
  \/ \E j \in 1..Len(jobs) : StatsDone(j)
  \/ NewBlock(MaxCaseHead)
  \/ IndexerStart
  \/ IndexerHead(TRUE)
  \/ \E players \in {{}, {"0xA"}} : IndexerLogs(TRUE, players)
  \/ IndexerSaveStep(TRUE)
  \/ BoardRequest("game", "", ClientIp, <<>>, TRUE, MaxCaseGets)
  \/ \E i \in 1..Len(reads) : ReadsSettle(i, {})

SpecCase == Init /\ [][NextCase]_vars

(***************************************************************************)
(* SpecShared: batch submissions of two browser clients, one with an       *)
(* address and one whose req.ip is empty, sent through the proxy to the    *)
(* service endpoint, and the clock.  The ledger write of the accepted      *)
(* submission stays queued.                                                *)
(***************************************************************************)
MaxSharedJobs == 1    \* submissions accepted in SpecShared
MaxSharedTicks == 2   \* clock steps taken in SpecShared

\* Time passes, more than the length of a window of the rate limiter.
WindowPasses(maxTicks) ==
  /\ now < StartMs + maxTicks * (RATE_WINDOW_MS + RATE_WINDOW_MS \div 4)
  /\ now' = now + RATE_WINDOW_MS + RATE_WINDOW_MS \div 4
  /\ UNCHANGED <<auxVars, hmacCase, rateStore, rateLog, dedupCache, queueVars, cacheVars,
                 diskVars, forwards, last>>

SharedCallers ==
  {[ClientReq(AllowedOrigin, CLIENT_API_SECRET, GoodBatch(""), "r1") EXCEPT !.ip = ip] :
     ip \in {ClientIp, ""}}

NextShared ==
  \/ \E creq \in SharedCallers : ProxyRequest("batch", creq, "n1")
  \/ \E f \in forwards : ForwardedRequest(f, MaxSharedJobs)
  \/ WindowPasses(MaxSharedTicks)

SpecShared == Init /\ [][NextShared]_vars

(***************************************************************************)
(* SpecKnown: a batch submission of one player, the indexer finding        *)
(* another, the snapshot writes of both, and a restart that loads the      *)
(* snapshot while submissions and indexer runs go on.                      *)
(***************************************************************************)
MaxKnownJobs == 1   \* submissions accepted per process in SpecKnown
MaxKnownHead == 3   \* the chain grows up to this block number in SpecKnown

KnownSubmission ==
  DirectReq("", API_SECRET, "fresh", "good", <<"r1", "">>,
            BatchBody("", <<"0xA">>, <<TRUE>>, "room1", "1"))

NextKnown ==
  \/ DirectRequest("batch", KnownSubmission, MaxKnownJobs)
  \/ \E j \in 1..Len(jobs) : JobWriteSent(j)
  \/ \E j \in 1..Len(jobs) : JobReceipt(j, "success")
  \/ \E j \in 1..Len(jobs) : StatsDone(j)
  \/ SaveMkdirDone
  \/ \E p \in saves.writes : SaveWriteDone(p)
  \/ NewBlock(MaxKnownHead)
  \/ IndexerStart
  \/ IndexerHead(TRUE)
  \/ \E players \in {{}, {"0xB"}} : IndexerLogs(TRUE, players)
  \/ IndexerSaveStep(TRUE)
  \/ SnapshotLoaded
  \/ Restart

SpecKnown == Init /\ [][NextKnown]_vars

(***************************************************************************)
(* SpecRecent: batch submissions of different hands, more than the buffer  *)
(* of recent hands holds, the requests for the buffer, the snapshot        *)
(* writes, and a restart that loads the snapshot.                          *)
(***************************************************************************)
MaxRecentJobs == 3   \* submissions accepted per process in SpecRecent

\* The k-th hand a process is sent: its x-request-id and its handSeq.
RecentSubmission(k) ==
  LET h == <<<<"r1", "1">>, <<"r2", "2">>, <<"r3", "3">>, <<"r4", "4">>>>[k]
  IN DirectReq("", API_SECRET, "fresh", "good", <<h[1], "">>,
               BatchBody("", <<"0xA">>, <<TRUE>>, "room1", h[2]))

NextRecent ==
  \/ \E k \in {Len(jobs) + 1} \cap (1..4) :
       DirectRequest("batch", RecentSubmission(k), MaxRecentJobs)
  \/ \E j \in 1..Len(jobs) : JobWriteSent(j)
  \/ \E j \in 1..Len(jobs) : JobReceipt(j, "success")
  \/ \E j \in 1..Len(jobs) : StatsDone(j)
  \/ SaveMkdirDone
  \/ \E p \in saves.writes : SaveWriteDone(p)
  \/ \E limit \in {<<>>, <<"1">>} : RecentRequest("", ClientIp, limit)
  \/ SnapshotLoaded
  \/ Restart

SpecRecent == Init /\ [][NextRecent]_vars

(***************************************************************************)
(* SpecReplay: one signed batch submission, sent at the start under the    *)
(* x-request-id r1, arrives again and again while time passes: as it was,  *)
(* or with the header x-request-id replaced.                               *)
(***************************************************************************)
MaxReplayJobs == 2    \* submissions accepted in SpecReplay
MaxReplayTicks == 2   \* clock steps taken in SpecReplay

CapturedRequest == SignedBy(HMAC_SECRET, DigitsOf(StartMs \div 1000), "n1", GoodBatch("r2"))

NextReplay ==
  \/ \E h \in {"r1", "r3"} :
       DirectRequest("batch", [CapturedRequest EXCEPT !.ridHdr = h], MaxReplayJobs)
  \/ Internal({MsgReverted}, {"success"})
  \/ Tick(MaxReplayTicks)

SpecReplay == Init /\ [][NextReplay]_vars

(***************************************************************************)
(* SpecValidate: a valid batch submission under the request id r1, and     *)
(* under r4 submissions without players, with lists of different lengths,  *)
(* and with a malformed address.                                           *)
(***************************************************************************)
MaxValidateJobs == 1   \* submissions accepted in SpecValidate

InvalidBatches ==
  {BatchBody("", <<>>, <<>>, "room1", "1"),
   BatchBody("", <<"0xA">>, <<TRUE, FALSE>>, "room1", "1"),
   BadBatch("")}

NextValidate ==
  \/ \E body \in {GoodBatch("")} \cup InvalidBatches :
       DirectRequest("batch",
                     DirectReq("", API_SECRET, "fresh", "good",
                               <<IF body \in InvalidBatches THEN "r4" ELSE "r1", "">>, body),
                     MaxValidateJobs)
  \/ Internal({MsgReverted}, {"success"})

SpecValidate == Init /\ [][NextValidate]_vars

(***************************************************************************)
(* SpecRate: one client of the rate limiter while time passes.             *)
(***************************************************************************)
NextRate ==
  \/ Tick(MaxRateTicks)
  \/ \E origin \in {"", EvilOrigin}, limit \in {<<>>, <<"1">>} :
       RecentRequest(origin, ClientIp, limit)

SpecRate == Init /\ [][NextRate]_vars

(***************************************************************************)
(* Properties.                                                             *)
(***************************************************************************)
\* What the handler put into the idempotency record when job j completed.
StoredAtCompletion(j) ==
  IF jobs[j].status = 200 THEN jobs[j].answer
  ELSE ErrObj(jobs[j].status, jobs[j].answer.msg)

\* The stages of a handler that a request reaches only past authentication
\* and the rate limiter.
DedupStages == {"replay", "conflict", "invalid"}

\* C1: for every non-empty idempotency key at most one ledger write is
\* issued, and a replay that arrives after the record of the key is done
\* gets exactly the result stored when the original request completed.
C1_OneWriteAndIdenticalReplay ==
  \A j \in 1..Len(jobs) :
    jobs[j].rid # "" =>
      /\ \A i \in 1..Len(jobs) : jobs[i].rid = jobs[j].rid => i = j
      /\ (jobs[j].pc = "done" /\ last.stage = "replay" /\ last.rid = jobs[j].rid)
           => last.body = StoredAtCompletion(j)

\* C2: while the submission of an idempotency key is in flight it is the
\* only one that went on to the write stage, and every other authenticated
\* submission with that key is answered 409.
C2_InFlightDuplicatesConflict ==
  \A j \in 1..Len(jobs) :
    (jobs[j].rid # "" /\ jobs[j].pc # "done") =>
      /\ \A i \in 1..Len(jobs) : jobs[i].rid = jobs[j].rid => i = j
      /\ (last.rid = jobs[j].rid /\ last.stage \in DedupStages) => last.status = 409

\* C3: the write serializer never has more than one ledger write in
\* progress, whatever the interleaving of submissions on the two endpoints.
C3_AtMostOneWriteInProgress == Cardinality(Active(jobs)) <= 1

\* C3 witness: a write is in progress while another submission waits.
C3_Witness ==
  /\ Cardinality(Active(jobs)) = 1
  /\ Len(q) > 0
  /\ \E i, j \in 1..Len(jobs) : jobs[i].ep = "batch" /\ jobs[j].ep = "update"

\* C4: jobs start in the order they were enqueued: the jobs started so far
\* are the first jobs enqueued, in enqueue order.
C4_StartInEnqueueOrder == \A i \in 1..Len(started) : started[i] = i

\* C4 witness: of three jobs under three request ids the first is done, the
\* second is being written and the third waits in the queue.
C4_Witness ==
  /\ Len(jobs) = 3 /\ started = <<1, 2>> /\ q = <<3>>
  /\ jobs[1].pc = "done" /\ jobs[2].pc \in {"write", "receipt"}
  /\ Cardinality({jobs[1].rid, jobs[2].rid, jobs[3].rid}) = 3

\* C5: a done record never changes, and while a record is processing no
\* other request with its key goes on to the write stage.
C5_DoneRecordImmutable ==
  [][\A k \in Rids :
       /\ dedupCache[k].status = "done" => dedupCache'[k] = dedupCache[k]
       /\ dedupCache[k].status = "processing" =>
            \A j \in 1..Len(jobs') : j > Len(jobs) => jobs'[j].rid # k]_vars

\* C6: when a submission fails after its key was reserved, the record of the
\* key is done and holds the error, and every later request with the key is
\* answered with the status and the error body the failed submission got.
C6_FailureReplayedAlike ==
  \A j \in 1..Len(jobs) :
    (jobs[j].rid # "" /\ jobs[j].pc = "done" /\ jobs[j].status # 200) =>
      /\ dedupCache[jobs[j].rid].status = "done"
      /\ Truthy(dedupCache[jobs[j].rid].error)
      /\ (last.rid = jobs[j].rid /\ last.stage = "replay")
           => (last.status = jobs[j].status /\ last.body = jobs[j].answer)

\* A request fails authentication: no server key, or verifyHmac does not
\* accept it.
AuthFails(req) ==
  \/ ~validateServerApiKey(PresentedKey(req))
  \/ verifyHmac(req, now).kind # "ok"

\* C7: a request to a service endpoint that fails authentication is
\* rejected and changes neither the rate limiter, nor the idempotency
\* records, nor the write queue, nor the local caches.
C7_AuthFailureChangesNothing ==
  [][\A ep \in Endpoints : \A req \in UnauthenticRequests(ep) \cup ShortSigRequests(ep) :
       (AuthFails(req) /\ DirectRequest(ep, req, MaxAuthJobs)) =>
         /\ last'.status >= 400
         /\ UNCHANGED <<rateStore, dedupCache, queueVars, cacheVars>>]_vars

\* The numeric value of the timestamp header is within the skew window.
WithinSkew(r) ==
  /\ Len(r.ts) > 0
  /\ IsFinite(ToNumber(r.ts))
  /\ ~SkewExceeded(now \div 1000, ToNumber(r.ts), MAX_SKEW_SECONDS)

\* The signature header decodes to the keyed hash of
\* v1:<timestamp>:<nonce header>:<sha256 of the raw body>, the timestamp
\* being the number the header denotes, in decimal.
SignsItsHeaders(r) ==
  /\ r.sig.present /\ r.sig.len = "full"
  /\ r.sig.val = HmacSha256(HMAC_SECRET,
                            SignedPayload(NumberToString(ToNumber(r.ts)), r.nonce,
                                          sha256Hex(r.body)))

\* C8: a request passes verifyHmac exactly when its three headers are
\* present, its timestamp is within the skew window and its signature is
\* the keyed hash of its timestamp, nonce and body; a request that differs
\* from an accepted one in body, timestamp or nonce and keeps its signature
\* is rejected.
C8_SignatureBindsHeadersAndBody ==
  LET s == hmacCase.sent
      r == hmacCase.received
  IN /\ hmacCase.verdict.kind = "ok"
          <=> (r.nonce # "" /\ WithinSkew(r) /\ SignsItsHeaders(r))
     /\ (hmacCase.sentVerdict.kind = "ok" /\ r.sig = s.sig
           /\ (r.body # s.body \/ r.ts # s.ts \/ r.nonce # s.nonce))
          => hmacCase.verdict.kind # "ok"

\* C9: every job of the write queue comes from a request that carried the
\* server key and a signature verifyHmac accepted; a request to a service or
\* operator endpoint that presents the public client key starts no job and
\* is answered 401 Unauthorized (when its origin is refused, the answer is
\* the refusal of the origin).
C9_ClientKeyNeverWrites ==
  /\ \A j \in 1..Len(jobs) : jobs[j].apiKey = API_SECRET /\ jobs[j].hmac = "ok"
  /\ (last.apiKey = CLIENT_API_SECRET /\ last.via \in {"direct", "operator"}) =>
       /\ last.job = 0
       /\ last.status >= 400
       /\ corsOrigin(last.origin) => last.status = 401

\* C9 witness: a correctly signed request with the client key was answered
\* 401 by a service endpoint.
C9_Witness ==
  /\ last.via = "direct" /\ last.apiKey = CLIENT_API_SECRET
  /\ last.stage = "apikey" /\ last.status = 401

C11_RollingWindowBound ==
  /\ \A k \in RateKeys : \A i \in 1..Len(rateLog[k]) :
        Cardinality({j \in i..Len(rateLog[k]) :
                       rateLog[k][j] < rateLog[k][i] + RATE_WINDOW_MS}) <= RATE_MAX
  /\ lastGet.status = 429 => lastGet.retryAfter > 0

\* C12: when a batch submission with request id r succeeds, the local
\* transaction count of each participant grows by exactly 1 and the score by
\* 1 for a winner and by 0 otherwise, and exactly one event carrying r is
\* appended to the recent buffer; a replay of r is answered with the stored
\* response and changes neither the local totals nor the recent buffer.
C12_BatchBumpsTotalsAndAppendsEvent ==
  [][/\ \A j \in 1..Len(jobs) :
          (jobs[j].ep = "batch" /\ jobs[j].rid # "" /\ jobs[j].pc = "receipt"
             /\ jobs'[j].pc = "stats") =>
            /\ \A i \in 1..Len(jobs[j].body.players) :
                 LET p == jobs[j].body.players[i]
                     before == IF localTotals[p].set THEN localTotals[p] ELSE NoTotals
                 IN /\ localTotals'[p].transactions = before.transactions + 1
                    /\ localTotals'[p].score =
                         before.score + (IF jobs[j].body.winners[i] THEN 1 ELSE 0)
            /\ \E e \in Range(recentHands') :
                 /\ e.requestId = AsBytes32(jobs[j].rid)
                 /\ recentHands' = appendRecentHand(recentHands, e)
     /\ (last' # last /\ last'.stage = "replay" /\ last'.ep = "batch") =>
          /\ UNCHANGED <<localTotals, recentHands>>
          /\ \A j \in 1..Len(jobs) :
               (jobs[j].rid = last'.rid /\ jobs[j].status = 200) =>
                  (last'.status = 200 /\ last'.body = jobs[j].answer)]_vars

\* C13: two leaderboard responses of one scope to requests without force,
\* sent less than the cache TTL apart with the same ledger, carry the same
\* payload; a request with force=1 is never answered from the cache, and its
\* payload replaces the cache entry of the scope.
C13_CachedPayloadIdentical ==
  [][(lastGet' # lastGet /\ lastGet'.ep \in Scopes /\ lastGet'.status = 200) =>
       /\ (/\ lastGet.ep = lastGet'.ep /\ lastGet.status = 200
            /\ ~lastGet.force /\ ~lastGet'.force
            /\ lastGet'.at - lastGet.at < LEADERBOARD_CACHE_TTL_MS
            /\ lastGet'.ledger = lastGet.ledger)
           => (lastGet'.items = lastGet.items /\ lastGet'.updatedAt = lastGet.updatedAt)
       /\ lastGet'.force =>
            /\ ~lastGet'.cached
            /\ LET cache == IF lastGet'.ep = "game" THEN leaderboardCache'
                            ELSE globalLeaderboardCache'
               IN cache.set /\ cache.ts = now' /\ cache.payload.items = lastGet'.items]_vars

\* Items in the order of the leaderboards: by score, largest first, and by
\* transaction count, largest first, among equal scores.
InBoardOrder(items) ==
  \A i \in 1..(Len(items) - 1) :
    \/ items[i].score > items[i + 1].score
    \/ items[i].score = items[i + 1].score
         /\ items[i].transactions >= items[i + 1].transactions

\* C14: the items of every leaderboard payload, of either scope, sent or kept
\* in a cache or in the snapshot, are ordered by score and, among equal
\* scores, by transaction count, both non-increasing.
C14_ItemsSorted ==
  /\ (lastGet.ep \in Scopes /\ lastGet.status = 200) => InBoardOrder(lastGet.items)
  /\ InBoardOrder(leaderboardCache.payload.items)
  /\ InBoardOrder(globalLeaderboardCache.payload.items)
  /\ InBoardOrder(disk.lastItems.items)

\* After a restart the warmed cache has answered with two players of equal
\* score and different transaction counts.
C14_Witness ==
  /\ spent.restarts = 1 /\ lastGet.ep = "game" /\ lastGet.status = 200 /\ lastGet.cached
  /\ Len(lastGet.items) = 2
  /\ lastGet.items[1].score = lastGet.items[2].score
  /\ lastGet.items[1].transactions > lastGet.items[2].transactions
  /\ lastGet.updatedAt = disk.lastItems.updatedAt /\ disk.lastItems.set

\* C15: a leaderboard response of either scope holds at most as many items
\* as the request's limit allows: the limit clamped to 1..200, 50 when none
\* or no valid one is given.
C15_AtMostLimitItems ==
  (lastGet.ep \in Scopes /\ lastGet.status = 200) =>
     Len(lastGet.items) <= queryLimit(lastGet.limit, 50, 200, 50)

\* C16: while the process runs the indexer cursor never decreases, and once
\* the cursor has moved, every block from LEADERBOARD_FROM_BLOCK, inclusive,
\* up to the cursor has been scanned by some chunk; this for any runs, read
\* errors, and restarts that load the cursor from the snapshot.
C16_CursorMonotoneNoGap ==
  [][/\ spent'.restarts = spent.restarts => lastProcessedBlock' >= lastProcessedBlock
     /\ lastProcessedBlock' # lastProcessedBlock =>
          \A b \in LEADERBOARD_FROM_BLOCK .. lastProcessedBlock' : b \in scanned']_vars

\* C17: the promise of every enqueue call is settled by exactly one call of
\* resolve or reject, made when its own task has completed and not before,
\* and it carries the outcome of that task: the receipt the task returned,
\* or the error it threw.
C17_PromiseSettlesOnceWithOwnOutcome ==
  \A j \in 1..Len(jobs) :
    LET p == jobs[j].promise
    IN /\ p.calls <= 1
       /\ (p.state = "pending") <=> (jobs[j].pc \in {"queued", "write", "receipt"})
       /\ p.state # "pending" => (p.of = j /\ p.calls = 1)
       /\ p.state = "fulfilled" => p.value = jobs[j].rstatus
       /\ p.state = "rejected" => jobs[j].answer = ErrBody(p.value)

\* Of three jobs the first was rejected, the second fulfilled, and the third
\* is running with its promise pending.
C17_Witness ==
  /\ Len(jobs) = 3
  /\ jobs[1].promise.state = "rejected" /\ jobs[2].promise.state = "fulfilled"
  /\ jobs[3].pc = "receipt" /\ jobs[3].promise.state = "pending"

\* C18: once a job has failed, every job enqueued after it is run in the end
\* and its promise is settled with its own outcome: the failure neither
\* stops the worker nor drops a queued job.
C18_FailureDoesNotStopQueue ==
  \A j \in 2..MaxQueueJobs :
    (Len(jobs) >= j /\ \E i \in 1..(j - 1) : jobs[i].promise.state = "rejected")
      ~> (/\ Len(jobs) >= j /\ j \in Range(started)
          /\ jobs[j].promise.state # "pending" /\ jobs[j].promise.of = j)

\* The first job failed while the second waited in the queue, and the second
\* has run and succeeded.
C18_Witness ==
  /\ Len(jobs) >= 2 /\ started = <<1, 2>>
  /\ jobs[1].promise.state = "rejected" /\ jobs[2].promise.state = "fulfilled"

\* C19: every enqueued job is started in the end, given that every job
\* before it terminates; also a job enqueued after the worker has drained the
\* queue and cleared its flag.
C19_EveryJobStarts ==
  \A j \in 1..MaxQueueJobs : (Len(jobs) >= j) ~> (j \in Range(started))

\* Three jobs were enqueued and each was started: the worker runs the third
\* after the first two have ended, and nothing is left in the queue.
C19_Witness ==
  /\ Len(jobs) = 3 /\ started = <<1, 2, 3>> /\ q = <<>> /\ running
  /\ jobs[1].pc = "done" /\ jobs[2].pc = "done" /\ jobs[3].pc = "write"

\* C20: a submission whose ledger write failed, or whose confirmed receipt
\* reports a reverted transaction, is answered as a failure with status 402
\* (insufficient funds), 403 (access denied) or 500 (generic), and never
\* with the ok:true payload.
C20_LedgerFailureAnsweredAsFailure ==
  \A j \in 1..Len(jobs) :
    (jobs[j].status # 0
       /\ (jobs[j].promise.state = "rejected" \/ jobs[j].rstatus = "reverted"))
      => (jobs[j].answer.shape = "fail" /\ jobs[j].status \in {402, 403, 500})

\* C21: while the process runs, the set of known players never loses an
\* address, whatever the order of submissions, indexer chunks and the
\* startup load of the snapshot; the step that completes a batch submission
\* leaves its players in the set, and the step that ends the load leaves the
\* players of the file in it.
C21_KnownPlayersNeverShrink ==
  [][spent'.restarts = spent.restarts =>
       /\ knownPlayers \subseteq knownPlayers'
       /\ \A j \in 1..Len(jobs) :
            (jobs[j].ep = "batch" /\ jobs[j].pc = "receipt" /\ jobs'[j].pc = "stats")
              => {a \in Range(jobs[j].body.players) : isAddress(a)} \subseteq knownPlayers'
       /\ (snapshotLoading /\ ~snapshotLoading' /\ disk.exists)
            => {a \in disk.knownPlayers : isAddress(a)} \subseteq knownPlayers']_vars

\* After a restart the indexer has found 0xB and a submission has added 0xA
\* before the load of a snapshot that names a player has ended.
C21_Witness ==
  /\ spent.restarts = 1 /\ snapshotLoading /\ disk.exists /\ disk.knownPlayers # {}
  /\ knownPlayers = {"0xA", "0xB"}
  /\ \E j \in 1..Len(jobs) : jobs[j].pc = "done"

\* The events the batch submissions completed by this process appended, in
\* the order of their completion (the order of the queue).
AppendedEvents(jb) ==
  LET done == SelectSeq(jb, LAMBDA x : x.ep = "batch" /\ x.pc \in {"stats", "done"}
                                          /\ x.promise.state = "fulfilled")
  IN [i \in 1..Len(done) |-> RecentEntry(done[i].body, now)]

\* C22: the buffer of recent hands never holds more than RECENT_HANDS_SIZE
\* entries, and after any order of completed batch submissions and snapshot
\* loads its newest entries are the min(k, RECENT_HANDS_SIZE) events
\* appended last, oldest first; an answer of GET /api/leaderboard/recent
\* holds at most the requested number of them, newest first.
C22_RecentBufferHoldsLatest ==
  [][/\ Len(recentHands') <= RECENT_HANDS_SIZE
     /\ LET events == AppendedEvents(jobs')
            m == IF Len(events) < RECENT_HANDS_SIZE THEN Len(events) ELSE RECENT_HANDS_SIZE
        IN /\ Len(recentHands') >= m
           /\ LastN(recentHands', m) = LastN(events, m)
     /\ (lastGet' # lastGet /\ lastGet'.ep = "recent" /\ lastGet'.status = 200) =>
          LET items == lastGet'.items
          IN /\ Len(items) <= (IF lastGet'.limit = <<>> THEN RECENT_HANDS_SIZE
                                ELSE DigitsToInt(lastGet'.limit))
             /\ Len(items) <= Len(recentHands)
             /\ \A i \in 1..Len(items) :
                  items[i] = [recentHands[Len(recentHands) + 1 - i]
                                EXCEPT !.timestamp = @ * 1000]]_vars

\* C23: a request id whose record is `processing` has a `done` record in the
\* end, whether the submission succeeds or its ledger call fails, given that
\* the ledger calls settle.
C23_ProcessingBecomesDone ==
  \A k \in Rids : (dedupCache[k].status = "processing") ~> (dedupCache[k].status = "done")

\* The submission under r1 failed at the ledger and its record is done with
\* the error, while the one under r2 is still in progress.
C23_Witness ==
  /\ dedupCache["r1"].status = "done" /\ Truthy(dedupCache["r1"].error)
  /\ dedupCache["r2"].status = "processing"

\* C24: a signed request that arrives again unchanged within the skew
\* window passes the signature check every time (no nonce is remembered):
\* it is refused only by the rate limiter or answered from the record of
\* its own x-request-id.  The header, which the signature does not cover,
\* is the key even when the body names a requestId, so the same signed
\* request under another x-request-id is enqueued for one more ledger write.
C24_ReplayUnderNewHeaderWritesAgain ==
  [][/\ (last' # last /\ last'.stage # "job") =>
          /\ last'.stage \in {"rate", "replay", "conflict"}
          /\ last'.stage \in {"replay", "conflict"} => dedupCache[last'.rid].status # "none"
          /\ last'.rid \in {"r1", "r3"}
     /\ dedupCache'[CapturedRequest.body.requestId].status = "none"
     /\ \A j \in 1..Len(jobs') :
          /\ jobs'[j].hmac = "ok" /\ jobs'[j].body = CapturedRequest.body
          /\ jobs'[j].rid \in {"r1", "r3"}
          /\ \A i \in 1..(j - 1) : jobs'[i].rid # jobs'[j].rid]_vars

\* The ledger write of the request sent under r1 has succeeded; later, still
\* within the skew window, the write of the same signed request under r3
\* has succeeded as well.
C24_Witness ==
  /\ Len(jobs) = 2 /\ now > StartMs
  /\ jobs[1].rid = "r1" /\ jobs[2].rid = "r3" /\ jobs[1].body = jobs[2].body
  /\ jobs[1].promise.state = "fulfilled" /\ jobs[2].promise.state = "fulfilled"
  /\ jobs[1].status = 200 /\ jobs[2].status = 200

\* C25: every batch job that is enqueued for a ledger write has as many
\* winners as players, at least one player, and well-formed addresses only;
\* a submission that fails one of these (here: every submission under r4)
\* and is not refused by the rate limiter is answered 400 as a failure, and
\* nothing is enqueued for it.
C25_BatchValidatedBeforeWrite ==
  [][/\ \A j \in 1..Len(jobs') :
          jobs'[j].ep = "batch" =>
            /\ Len(jobs'[j].body.players) = Len(jobs'[j].body.winners)
            /\ Len(jobs'[j].body.players) >= 1
            /\ \A i \in 1..Len(jobs'[j].body.players) : isAddress(jobs'[j].body.players[i])
            /\ jobs'[j].rid # "r4"
     /\ (last' # last /\ last'.rid = "r4" /\ last'.stage # "rate") =>
          /\ last'.status = 400 /\ last'.body.shape = "fail"
          /\ jobs' = jobs]_vars

\* What the contract holds for player p in a scope.
HeldFor(scope, p) ==
  IF scope = "game"
  THEN [player |-> p, score |-> ledger[p].score, transactions |-> ledger[p].transactions]
  ELSE [player |-> p, score |-> ledger[p].score + OtherGames[p].score,
        transactions |-> ledger[p].transactions + OtherGames[p].transactions]

\* C26: an aggregation in which the read for one address fails (here only
\* reads for 0xA fail) still ends with a 200 answer that lists every
\* address read, up to the limit; the entry of the failed address is zero
\* and every other entry is what the contract holds.
C26_FailedReadIsZeroForThatAddressOnly ==
  [][(Len(reads) > 0 /\ Len(reads') = Len(reads) - 1 /\ lastGet' # lastGet) =>
         LET items == lastGet'.items
             asked == reads[IF \E k \in 1..Len(reads') : reads'[k] # reads[k]
                            THEN CHOOSE k \in 1..Len(reads') : reads'[k] # reads[k]
                            ELSE Len(reads)]
         IN /\ lastGet'.status = 200 /\ lastGet'.ep = asked.scope
            /\ Len(items) = (IF Len(asked.players) < asked.n THEN Len(asked.players)
                              ELSE asked.n)
            /\ \A k \in 1..Len(items) :
                 \/ items[k] = HeldFor(asked.scope, items[k].player)
                 \/ /\ items[k].player = "0xA"
                    /\ items[k].score = 0 /\ items[k].transactions = 0
            /\ Len(items) = Len(asked.players) =>
                 {items[k].player : k \in 1..Len(items)} = Range(asked.players)]_vars

\* Both players were read; the read for 0xA failed and its entry is zero,
\* the entry of 0xB is what the contract holds.
C26_Witness ==
  /\ lastGet.ep \in Scopes /\ lastGet.status = 200 /\ ~lastGet.cached
  /\ Len(lastGet.items) = 2
  /\ lastGet.ledger["0xA"].score > 0
  /\ \E k \in 1..2 : lastGet.items[k] = [player |-> "0xA", score |-> 0, transactions |-> 0]
  /\ \E k \in 1..2 : /\ lastGet.items[k] = HeldFor(lastGet.ep, "0xB")
                       /\ lastGet.items[k].score > 0

\* C27: at most one indexer run is active: the flag is set exactly while a
\* run is between its start and its exit, whichever exit it takes, and no
\* call starts a run, reads the ledger or moves the cursor while the flag
\* is set.
C27_SingleIndexerRun ==
  [][/\ indexing' <=> indexRun'.pc # "idle"
     /\ (indexRun' # indexRun /\ indexRun'.pc = "head") => ~indexing
     /\ (indexRun.pc # "idle" /\ indexRun'.pc = "idle") => ~indexing']_vars

\* A run has scanned a chunk and saved, has ended and cleared the flag, and
\* after it a chunk read of the next run has failed: that run is at its
\* last save.
C27_Witness ==
  /\ indexing /\ indexRun.pc = "mkdir-last" /\ indexRun.from <= indexRun.head
  /\ scanned # {} /\ disk.exists /\ disk.lastProcessedBlock = lastProcessedBlock
  /\ lastProcessedBlock + 1 = indexRun.from

C29_CursorSavedAfterEachChunk ==
  [][(indexRun' # indexRun /\ indexRun'.pc = "logs" /\ indexRun.pc # "head") =>
       (disk'.exists /\ disk'.lastProcessedBlock = lastProcessedBlock')]_vars


\* C30: after the step that completes the ledger write of a batch submission
\* (the receipt arrives and the local totals and the recent-hand buffer are
\* updated) a save of the snapshot is under way that has not built its
\* payload yet, triggered by this step or by an earlier one, so that the file
\* will hold the submission; also when every player of the submission is in
\* knownPlayers already.
C30_BatchCompletionTriggersSave ==
  [][\A j \in 1..Len(jobs) :
       (/\ jobs[j].ep = "batch" /\ jobs[j].pc = "receipt"
        /\ j <= Len(jobs') /\ jobs'[j].pc = "stats") =>
         saves'.mkdir > 0]_vars


\* C31: once the snapshot file holds a leaderboard computed by
\* GET /api/leaderboard, every later write of the file holds a computed
\* leaderboard too, and one that is not older than the one it replaces.
C31_SnapshotKeepsLeaderboard ==
  [][disk.lastItems.set =>
       /\ disk'.lastItems.set
       /\ disk'.lastItems.updatedAt >= disk.lastItems.updatedAt]_vars


C33_RateEntryFrame ==
  [][/\ \A k \in RateKeys :
          LET e == rateStore[k]
              res == isAllowed(rateStore, k, now)
          IN /\ rateStore'[k] # e =>
                  /\ now' = now
                  /\ IF ~e.set \/ now > e.resetAt
                     THEN rateStore'[k] = [set |-> TRUE, count |-> 1,
                                           resetAt |-> now + RATE_WINDOW_MS]
                     ELSE /\ e.count < RATE_MAX
                          /\ rateStore'[k] = [e EXCEPT !.count = e.count + 1]
             /\ res.remaining >= 0
             /\ res.remaining = RATE_MAX - res.store[k].count
             /\ ~res.allowed => res.store = rateStore
             /\ res.allowed => res.store[k] # e
     /\ (lastGet' # lastGet /\ lastGet'.status = 429) => rateStore' = rateStore
     /\ (lastGet' # lastGet /\ lastGet'.status = 200) =>
          rateStore'[ClientIp] # rateStore[ClientIp]]_vars

\* A window was filled, replaced after its deadline, filled again, and a
\* request was refused.
C33_Witness ==
  /\ Len(rateLog[ClientIp]) = 2 * RATE_MAX
  /\ rateStore[ClientIp].count = RATE_MAX
  /\ lastGet.status = 429


\* C34: while the startup load of the snapshot is pending, a snapshot file
\* that exists is not replaced by one that lacks some of its players or
\* holds a smaller cursor.
C34_NoLossyWriteBeforeLoad ==
  [][(snapshotLoading /\ disk.exists /\ disk' # disk) =>
       /\ disk.knownPlayers \subseteq disk'.knownPlayers
       /\ disk'.lastProcessedBlock >= disk.lastProcessedBlock]_vars


\* C35: the step in which the queued write of a batch submission rejects
\* leaves knownPlayers, localTotals, recentHands and the pending saves as
\* they are, and these caches change only in the step in which the write of
\* a batch submission is fulfilled; so a submission whose write fails leaves
\* them as they were before the request.
C35_FailedWriteLeavesCaches ==
  [][/\ \A j \in 1..Len(jobs) :
          (/\ jobs[j].ep = "batch" /\ j <= Len(jobs')
           /\ jobs[j].promise.state = "pending" /\ jobs'[j].promise.state = "rejected") =>
            (UNCHANGED cacheVars /\ saves' = saves)
     /\ cacheVars' # cacheVars =>
          \E j \in 1..Len(jobs) :
            /\ jobs[j].ep = "batch" /\ j <= Len(jobs')
            /\ jobs[j].promise.state = "pending" /\ jobs'[j].promise.state = "fulfilled"]_vars

\* The write of a batch submission has failed after it was sent, and no
\* player, total or recent hand is held.
C35_Witness ==
  \E j \in 1..Len(jobs) :
    /\ jobs[j].ep = "batch" /\ jobs[j].promise.state = "rejected"
    /\ j \in Range(started)
    /\ knownPlayers = {} /\ recentHands = <<>>
    /\ \A a \in PlayerAddrs : ~localTotals[a].set


\* C36: no two ledger writes are enqueued under one request id, whichever
\* endpoints the requests came to; and a request that passed the rate limit
\* on one endpoint, under an id whose record the other endpoint's request
\* created, enqueues nothing, leaves the record, and is answered 409 if the
\* record is `processing` and 200 if it is `done`, with the stored result
\* when the record has one.
C36_OneNamespaceForBothEndpoints ==
  [][/\ \A i, j \in 1..Len(jobs') : (i # j) => jobs'[i].rid # jobs'[j].rid
     /\ \A r \in Rids :
          (/\ last' # last /\ last'.job = 0 /\ last'.rid = r /\ last'.status # 429
           /\ \E j \in 1..Len(jobs) : jobs[j].rid = r /\ jobs[j].ep # last'.ep) =>
            /\ jobs' = jobs /\ q' = q /\ dedupCache' = dedupCache
            /\ dedupCache[r].status \in {"processing", "done"}
            /\ dedupCache[r].status = "processing" => last'.status = 409
            /\ dedupCache[r].status = "done" =>
                 /\ last'.status = 200
                 /\ Truthy(dedupCache[r].result) => last'.body = dedupCache[r].result]_vars

\* A request to /api/update-player-data was answered with the result that a
\* batch submission stored under the same request id.
C36_Witness ==
  /\ last.ep = "update" /\ last.stage = "replay" /\ last.status = 200
  /\ \E j \in 1..Len(jobs) :
       /\ jobs[j].rid = last.rid /\ jobs[j].ep = "batch" /\ jobs[j].pc = "done"
       /\ jobs[j].status = 200 /\ last.body = jobs[j].answer


\* C37: a request with neither an x-request-id header nor a requestId in its
\* body is never answered from the idempotency store, and neither its
\* arrival nor the end of its job changes the store; and in every state a
\* valid request without an id is either refused by the rate limiter or
\* enqueued for its own ledger write.
C37_KeylessNeverDeduplicated ==
  [][/\ (last' # last /\ last'.rid = "") =>
          (last'.stage \notin {"replay", "conflict"} /\ dedupCache' = dedupCache)
     /\ (Len(jobs') = Len(jobs) + 1 /\ jobs'[Len(jobs')].rid = "") =>
          dedupCache' = dedupCache
     /\ \A j \in 1..Len(jobs) :
          (jobs[j].rid = "" /\ jobs[j].pc # "done" /\ jobs'[j].pc = "done") =>
            dedupCache' = dedupCache
     /\ \A ep \in Endpoints : \A req \in ValidRequests(ep) :
          IncomingRid(req) = "" =>
            LET o == ServiceHandler(ep, req, now, rateStore, dedupCache)
            IN o.dedup = dedupCache /\ (o.enq \/ o.stage = "rate")]_vars

\* Two requests without an id and with the same payload have each had their
\* own ledger write issued, and the store holds no record.
C37_Witness ==
  /\ Len(jobs) = 2 /\ jobs[1].rid = "" /\ jobs[2].rid = ""
  /\ jobs[1].ep = jobs[2].ep /\ jobs[1].body = jobs[2].body
  /\ jobs[1].pc = "done" /\ jobs[2].pc = "done"
  /\ 1 \in Range(started) /\ 2 \in Range(started)
  /\ \A r \in Rids : dedupCache[r] = NoRecord


\* C38: the cache entry that a recomputation of GET /api/leaderboard stored
\* while the startup load was pending is still the entry when the load has
\* settled and the cache was warmed.
C38_WarmUpKeepsLiveEntry ==
  [][(snapshotLoading /\ ~snapshotLoading' /\ leaderboardCache.set) =>
       leaderboardCache' = leaderboardCache]_vars


\* C39: no account is held twice, under two forms of its address, in
\* knownPlayers, in localTotals, or in the items of a leaderboard response.
C39_OneEntryPerAccount ==
  /\ \A a, b \in knownPlayers : accountOf(a) = accountOf(b) => a = b
  /\ \A a, b \in PlayerAddrs :
       (localTotals[a].set /\ localTotals[b].set /\ accountOf(a) = accountOf(b)) => a = b
  /\ \A x, y \in 1..Len(lastGet.items) :
       accountOf(lastGet.items[x].player) = accountOf(lastGet.items[y].player) => x = y


\* C40: the proxy's forwarding of a submission takes one unit of one
\* caller's window and none of the loopback window; its arrival at the
\* service endpoint either is refused by the rate limiter, the loopback
\* window being full, or takes one unit of the loopback window and of no
\* other; and the requests admitted in the loopback window are the ones
\* counted in it, at most RATE_MAX.
C40_ProxiedShareLoopbackWindow ==
  [][/\ (forwards' # forwards /\ forwards \subseteq forwards') =>
          /\ \E k \in RateKeys \ {Loopback} :
               /\ rateLog'[k] = Append(rateLog[k], now)
               /\ \A h \in RateKeys \ {k} : rateLog'[h] = rateLog[h]
     /\ (forwards' # forwards /\ forwards' \subseteq forwards) =>
          IF Len(jobs') = Len(jobs) /\ last'.stage = "rate"
          THEN /\ rateStore' = rateStore /\ rateLog' = rateLog
               /\ rateStore[Loopback].count >= RATE_MAX
          ELSE /\ rateLog'[Loopback] = Append(rateLog[Loopback], now)
               /\ \A h \in RateKeys \ {Loopback} : rateLog'[h] = rateLog[h]
     /\ rateStore[Loopback].set =>
          /\ rateStore[Loopback].count <= RATE_MAX
          /\ rateStore[Loopback].count =
               Cardinality({i \in 1..Len(rateLog[Loopback]) :
                  rateLog[Loopback][i] >= rateStore[Loopback].resetAt - RATE_WINDOW_MS})]_vars

\* A submission of a caller whose own window has room was refused at the
\* service endpoint, the loopback window being full.
C40_Witness ==
  /\ last.via = "proxy" /\ last.stage = "rate" /\ last.status = 429
  /\ rateStore[Loopback].count = RATE_MAX
  /\ rateStore[ClientIp].count < RATE_MAX /\ rateStore["global"].count < RATE_MAX
  /\ rateStore[ClientIp].set /\ rateStore["global"].set

====
